---- MODULE Spec2Model ----
(***************************************************************************)
(* A model of the git client of src/src/main.cpp: the loose-object store,  *)
(* the tree writer and the working-tree materializer, the delta decoder,   *)
(* the pack resolver and the clone orchestrator.                           *)
(*                                                                         *)
(* Byte strings (std::string, std::vector<char>) are sequences of the     *)
(* numbers 0..255.  Positions are 0-based as in the code: the byte at      *)
(* position p of s is s[p + 1].  std::string::npos (the largest size_t) is *)
(* the number -1, so that npos + 1 = 0 as in the code's unsigned           *)
(* arithmetic, and any negative size_t stands for a wrapped, huge value.   *)
(***************************************************************************)
EXTENDS Integers, Sequences, FiniteSets, TLC

(***************************************************************************)
(* Bounds of the model.                                                    *)
(***************************************************************************)
\* The number of commands (process runs) in one behaviour.
MaxCmds == 2

(***************************************************************************)
(* Byte-string helpers.                                                    *)
(***************************************************************************)
NPOS == 0 - 1

Min(a, b) == IF a < b THEN a ELSE b

\* std::string::find(char, pos): the first position >= pos holding b, or npos.
Find(s, b, pos) ==
    IF pos < 0 \/ pos >= Len(s) THEN NPOS
    ELSE LET hits == {p \in pos..(Len(s) - 1) : s[p + 1] = b}
         IN  IF hits = {} THEN NPOS
             ELSE CHOOSE p \in hits : \A q \in hits : p <= q

\* std::string::substr(pos, count) throws std::out_of_range iff pos > size().
SubstrThrows(s, pos) == pos < 0 \/ pos > Len(s)

\* std::string::substr(pos, count) for pos <= size(): count is clipped to the
\* rest of the string; a negative count is a wrapped (huge) one.
Substr(s, pos, count) ==
    LET n == IF count < 0 THEN Len(s) - pos ELSE Min(count, Len(s) - pos)
    IN  SubSeq(s, pos + 1, pos + n)

\* std::string::substr(pos): the rest of the string from pos.
SubstrFrom(s, pos) == SubSeq(s, pos + 1, Len(s))

\* std::to_string(size_t): the decimal digits, as ASCII bytes.
RECURSIVE to_string(_)
to_string(n) ==
    IF n < 10 THEN <<48 + n>> ELSE to_string(n \div 10) \o <<48 + (n % 10)>>

\* The sum of the bytes (by halves, to keep the evaluation shallow).
RECURSIVE SumBytes(_)
SumBytes(s) ==
    IF Len(s) = 0 THEN 0
    ELSE IF Len(s) = 1 THEN s[1]
    ELSE LET h == Len(s) \div 2
         IN  SumBytes(SubSeq(s, 1, h)) + SumBytes(SubSeq(s, h + 1, Len(s)))

(***************************************************************************)
(* ASCII literals of the code.                                             *)
(***************************************************************************)
NUL == 0
LF == 10
SP == 32
STR_blob == <<98, 108, 111, 98>>
STR_tree == <<116, 114, 101, 101>>
STR_commit == <<99, 111, 109, 109, 105, 116>>
STR_tag == <<116, 97, 103>>
STR_unknown == <<117, 110, 107, 110, 111, 119, 110>>
STR_dotgit == <<46, 103, 105, 116>>
STR_40000 == <<52, 48, 48, 48, 48>>
STR_100644 == <<49, 48, 48, 54, 52, 52>>
STR_tree_sp == <<116, 114, 101, 101, 32>>
STR_parent_sp == <<112, 97, 114, 101, 110, 116, 32>>
STR_author_line ==
    <<97, 117, 116, 104, 111, 114, 32, 74, 111, 104, 110, 32, 68, 111, 101, 32,
      60, 106, 111, 104, 110, 64, 101, 120, 97, 109, 112, 108, 101, 46, 99, 111,
      109, 62, 32, 49, 50, 51, 52, 53, 54, 55, 56, 57, 48, 32, 43, 48, 48, 48,
      48, 10>>
STR_committer_line ==
    <<99, 111, 109, 109, 105, 116, 116, 101, 114, 32, 74, 111, 104, 110, 32, 68,
      111, 101, 32, 60, 106, 111, 104, 110, 64, 101, 120, 97, 109, 112, 108,
      101, 46, 99, 111, 109, 62, 32, 49, 50, 51, 52, 53, 54, 55, 56, 57, 48, 32,
      43, 48, 48, 48, 48, 10>>
STR_HEAD == <<72, 69, 65, 68>>
STR_master ==
    <<114, 101, 102, 115, 47, 104, 101, 97, 100, 115, 47, 109, 97, 115, 116, 101,
      114>>
STR_main ==
    <<114, 101, 102, 115, 47, 104, 101, 97, 100, 115, 47, 109, 97, 105, 110>>
STR_ref_sp == <<114, 101, 102, 58, 32>>
STR_service == <<35, 32, 115, 101, 114, 118, 105, 99, 101, 61>>
STR_PACK == <<80, 65, 67, 75>>
STR_want_sp == <<119, 97, 110, 116, 32>>
STR_done == <<100, 111, 110, 101, 10>>
STR_0000 == <<48, 48, 48, 48>>

(***************************************************************************)
(* zlib.  A deflate stream is modelled as one stored block: a header byte, *)
(* the length of the data, the data, and a checksum of the data.  What the *)
(* code relies on is kept: deflate is deterministic, inflate of deflate is *)
(* the identity, inflate reports how many input bytes the stream took, a   *)
(* stream cut short leaves inflate without input (Z_BUF_ERROR), and a bad  *)
(* header or checksum is Z_DATA_ERROR.                                     *)
(***************************************************************************)
ZHeader == 120

ZCheck(data) == (1 + SumBytes(data)) % 251

compressZlib(data) == <<ZHeader, Len(data)>> \o data \o <<ZCheck(data)>>

\* inflate() driven to its end over the bytes of buf from offset on.
Inflate(buf, offset) ==
    LET avail == Len(buf) - offset
    IN  IF avail >= 1 /\ buf[offset + 1] # ZHeader
          THEN [ret |-> "Z_DATA_ERROR", out |-> <<>>, total_in |-> 0]
        ELSE IF avail < 2 \/ avail < buf[offset + 2] + 3
          THEN [ret |-> "Z_BUF_ERROR", out |-> <<>>, total_in |-> 0]
        ELSE LET n == buf[offset + 2]
                 data == SubSeq(buf, offset + 3, offset + 2 + n)
             IN  IF buf[offset + 3 + n] # ZCheck(data)
                   THEN [ret |-> "Z_DATA_ERROR", out |-> <<>>, total_in |-> 0]
                   ELSE [ret |-> "Z_STREAM_END", out |-> data, total_in |-> n + 3]

\* decompressZlib: every return of inflate other than Z_OK and Z_STREAM_END
\* throws; a stream cut short ends in Z_BUF_ERROR on the call after its last
\* input byte.
decompressZlib(compressedData) ==
    LET r == Inflate(compressedData, 0)
    IN  IF r.ret = "Z_STREAM_END" THEN [ok |-> TRUE, out |-> r.out]
                                  ELSE [ok |-> FALSE, out |-> <<>>]

(***************************************************************************)
(* SHA-1.  The digest is modelled as a collision-free oracle: shaTab lists *)
(* the distinct byte strings hashed so far, and the n-th of them has the   *)
(* n-th digest.  computeSha1 is computed against the table that already    *)
(* holds its argument (Intern).                                            *)
(***************************************************************************)
SHA_DIGEST_LENGTH == 20

Intern(tab, data) ==
    IF \E i \in 1..Len(tab) : tab[i] = data THEN tab ELSE Append(tab, data)

ShaIndex(tab, data) ==
    IF \E i \in 1..Len(tab) : tab[i] = data
      THEN CHOOSE i \in 1..Len(tab) : tab[i] = data
      ELSE Len(tab) + 1

\* The 20 raw bytes of the n-th digest.
RawDigest(n) ==
    [k \in 1..SHA_DIGEST_LENGTH |->
        IF k = 1 THEN n % 256 ELSE IF k = 2 THEN (n \div 256) % 256 ELSE 0]

HexDigit(v) == IF v < 10 THEN 48 + v ELSE 87 + v

\* shaToHex: two lowercase hex digits per raw byte.
RECURSIVE shaToHex(_)
shaToHex(sha) ==
    IF sha = <<>> THEN <<>>
    ELSE <<HexDigit(sha[1] \div 16), HexDigit(sha[1] % 16)>> \o shaToHex(Tail(sha))

computeSha1(tab, data) == shaToHex(RawDigest(ShaIndex(tab, data)))

\* std::stoi(two characters, nullptr, 16) on lowercase hex digits.
HexValue(c) == IF c >= 97 THEN c - 87 ELSE c - 48

\* The same loop with the two digits of each byte taken in the other order.
HexToRawSwapped(hex) ==
    [k \in 1..SHA_DIGEST_LENGTH |->
        16 * HexValue(hex[2 * k]) + HexValue(hex[2 * k - 1])]

\* The loop of writeTree that turns the 40 hex characters into 20 raw bytes.
HexToRaw(hex) ==
    [k \in 1..SHA_DIGEST_LENGTH |->
        16 * HexValue(hex[2 * k - 1]) + HexValue(hex[2 * k])]

(***************************************************************************)
(* The loose-object store: a map from the path of an object file, the pair *)
(* <<XX, YYY...>> of directory and file name under objects/, to the bytes  *)
(* of the file.                                                            *)
(***************************************************************************)
ObjectPath(sha1Hex) == <<Substr(sha1Hex, 0, 2), SubstrFrom(sha1Hex, 2)>>

\* A stream opened for appending: the bytes are added to those of the file.
WriteFileAppend(files, path, bytes) ==
    [p \in DOMAIN files \cup {path} |->
        IF p # path THEN files[p]
        ELSE IF path \in DOMAIN files THEN files[path] \o bytes
        ELSE bytes]

\* std::ofstream(path, binary) followed by write: the file is truncated and
\* holds the bytes written.
WriteFile(files, path, bytes) ==
    [p \in DOMAIN files \cup {path} |-> IF p = path THEN bytes ELSE files[p]]

\* "<kind> <size>\0<payload>"
Framing(kind, payload) ==
    kind \o <<SP>> \o to_string(Len(payload)) \o <<NUL>> \o payload

\* A writeObject that returns at once if the path exists.
writeObjectIfAbsent(st, objectData, fsok) ==
    LET tab == Intern(st.tab, objectData)
        sha1Hex == computeSha1(tab, objectData)
        compressed == compressZlib(objectData)
    IN  [tab |-> tab,
         objs |-> IF fsok /\ ObjectPath(sha1Hex) \notin DOMAIN st.objs
                    THEN WriteFile(st.objs, ObjectPath(sha1Hex), compressed)
                    ELSE st.objs,
         sha |-> sha1Hex]

\* writeObject: the file is written only if the stream opened (fsok); the
\* digest is returned either way.
writeObject(st, objectData, fsok) ==
    LET tab == Intern(st.tab, objectData)
        sha1Hex == computeSha1(tab, objectData)
        compressed == compressZlib(objectData)
    IN  [tab |-> tab,
         objs |-> IF fsok THEN WriteFile(st.objs, ObjectPath(sha1Hex), compressed)
                          ELSE st.objs,
         sha |-> sha1Hex]

\* A writeObjectWithSha without the test of the path: the file is opened and
\* written again.  A file that cannot be opened keeps its bytes; one that is
\* opened and not written to its end is left empty.
writeObjectWithShaReopened(objs, objectData, sha1Hex, fsok) ==
    IF fsok THEN WriteFile(objs, ObjectPath(sha1Hex), <<>>) ELSE objs

\* A writeObjectWithSha that writes the framing as it is, not deflated.
writeObjectWithShaStored(objs, objectData, sha1Hex, fsok) ==
    IF ObjectPath(sha1Hex) \in DOMAIN objs THEN objs
    ELSE IF fsok THEN WriteFile(objs, ObjectPath(sha1Hex), objectData)
    ELSE objs

\* writeObjectWithSha: returns at once if the path exists.
writeObjectWithSha(objs, objectData, sha1Hex, fsok) ==
    IF ObjectPath(sha1Hex) \in DOMAIN objs THEN objs
    ELSE IF fsok THEN WriteFile(objs, ObjectPath(sha1Hex), compressZlib(objectData))
    ELSE objs

\* A readObject that takes a file it cannot open for an empty object.
readObjectLenient(objs, sha) ==
    LET path == ObjectPath(sha)
    IN  IF path \notin DOMAIN objs THEN [ok |-> TRUE, type |-> <<>>, content |-> <<>>]
        ELSE LET z == decompressZlib(objs[path])
             IN  IF ~z.ok THEN [ok |-> FALSE, type |-> <<>>, content |-> <<>>]
                 ELSE LET decompressed == z.out
                          nullPos == Find(decompressed, NUL, 0)
                          header == Substr(decompressed, 0, nullPos)
                          content == SubstrFrom(decompressed, nullPos + 1)
                          type == Substr(header, 0, Find(header, SP, 0))
                      IN  [ok |-> TRUE, type |-> type, content |-> content]

\* readObject: throws if the file cannot be opened or does not inflate;
\* otherwise splits at the first NUL with no check that there is one.
readObject(objs, sha) ==
    LET path == ObjectPath(sha)
    IN  IF path \notin DOMAIN objs THEN [ok |-> FALSE, type |-> <<>>, content |-> <<>>]
        ELSE LET z == decompressZlib(objs[path])
             IN  IF ~z.ok THEN [ok |-> FALSE, type |-> <<>>, content |-> <<>>]
                 ELSE LET decompressed == z.out
                          nullPos == Find(decompressed, NUL, 0)
                          header == Substr(decompressed, 0, nullPos)
                          content == SubstrFrom(decompressed, nullPos + 1)
                          type == Substr(header, 0, Find(header, SP, 0))
                      IN  [ok |-> TRUE, type |-> type, content |-> content]

(***************************************************************************)
(* Directories.  A directory is the sequence of its entries in the order   *)
(* std::filesystem::directory_iterator yields them (unspecified, and not   *)
(* sorted); an entry is [name, kind, value] with kind "file" (value: the   *)
(* bytes of the file) or "dir" (value: the directory).                     *)
(***************************************************************************)
File(name, bytes) == [name |-> name, kind |-> "file", value |-> bytes]
Dir(name, entries) == [name |-> name, kind |-> "dir", value |-> entries]

HasEntry(dir, name) == \E i \in 1..Len(dir) : dir[i].name = name

EntryOf(dir, name) == dir[CHOOSE i \in 1..Len(dir) : dir[i].name = name]

\* The directory with the entry of that name created or replaced.
PutEntry(dir, e) ==
    IF HasEntry(dir, e.name)
      THEN [i \in 1..Len(dir) |-> IF dir[i].name = e.name THEN e ELSE dir[i]]
      ELSE Append(dir, e)

\* writeBlob: the file's bytes framed as a blob and written.
writeBlob(st, content, fsok) == writeObject(st, Framing(STR_blob, content), fsok)

\* std::string operator<, which compares the bytes as unsigned char.
RECURSIVE StrLess(_, _)
StrLess(a, b) ==
    IF b = <<>> THEN FALSE
    ELSE IF a = <<>> THEN TRUE
    ELSE IF a[1] # b[1] THEN a[1] < b[1]
    ELSE StrLess(Tail(a), Tail(b))

\* A comparison of the bytes as signed char.
RECURSIVE StrLessSigned(_, _)
StrLessSigned(a, b) ==
    IF b = <<>> THEN FALSE
    ELSE IF a = <<>> THEN TRUE
    ELSE IF a[1] # b[1]
      THEN (IF a[1] >= 128 THEN a[1] - 256 ELSE a[1])
           < (IF b[1] >= 128 THEN b[1] - 256 ELSE b[1])
    ELSE StrLessSigned(Tail(a), Tail(b))

EntryLessSigned(a, b) == StrLessSigned(a.name, b.name)

\* The comparator of writeTree's std::sort.
EntryLess(a, b) == StrLess(a.name, b.name)

RECURSIVE SortedInsert(_, _)
SortedInsert(sorted, e) ==
    IF sorted = <<>> THEN <<e>>
    ELSE IF EntryLess(e, sorted[1]) THEN <<e>> \o sorted
    ELSE <<sorted[1]>> \o SortedInsert(Tail(sorted), e)

\* std::sort(entries, comparator): the entries in the comparator's order.
RECURSIVE SortEntries(_)
SortEntries(entries) ==
    IF entries = <<>> THEN <<>>
    ELSE SortedInsert(SortEntries(SubSeq(entries, 1, Len(entries) - 1)),
                      entries[Len(entries)])

\* mode + " " + name + '\0' + sha, for every entry in order.
RECURSIVE TreeContent(_)
TreeContent(entries) ==
    IF entries = <<>> THEN <<>>
    ELSE entries[1].mode \o <<SP>> \o entries[1].name \o <<NUL>> \o entries[1].sha
         \o TreeContent(Tail(entries))

\* writeTree.  ScanDir is its loop over the directory: every child but
\* ".git" is written (a sub-directory as a tree, a regular file as a blob)
\* and becomes an entry holding the raw digest.
RECURSIVE writeTree(_, _, _), ScanDir(_, _, _, _)
ScanDir(st, dirPath, entries, fsok) ==
    IF dirPath = <<>> THEN [st |-> st, entries |-> entries]
    ELSE LET entry == dirPath[1]
             rest == Tail(dirPath)
         IN  IF entry.name = STR_dotgit THEN ScanDir(st, rest, entries, fsok)
             ELSE IF entry.kind = "dir" THEN
                 LET w == writeTree(st, entry.value, fsok)
                     treeEntry == [mode |-> STR_40000, name |-> entry.name,
                                   sha |-> HexToRaw(w.sha)]
                 IN  ScanDir([tab |-> w.tab, objs |-> w.objs], rest,
                             Append(entries, treeEntry), fsok)
             ELSE IF entry.kind = "file" THEN
                 LET w == writeBlob(st, entry.value, fsok)
                     treeEntry == [mode |-> STR_100644, name |-> entry.name,
                                   sha |-> HexToRaw(w.sha)]
                 IN  ScanDir([tab |-> w.tab, objs |-> w.objs], rest,
                             Append(entries, treeEntry), fsok)
             ELSE ScanDir(st, rest, entries, fsok)

writeTree(st, dirPath, fsok) ==
    LET scanned == ScanDir(st, dirPath, <<>>, fsok)
        treeContent == TreeContent(SortEntries(scanned.entries))
    IN  writeObject(scanned.st, Framing(STR_tree, treeContent), fsok)

(***************************************************************************)
(* checkoutTree.  Its result is [status, dir]: status is "ok", "throw" (an *)
(* exception left the function), "hang" (the loop came back to a position  *)
(* it had already parsed, with nothing changed: it never ends) or "ub"     *)
(* (the 20 digest bytes were read past the end of the payload); dir is the *)
(* destination directory as the call left it.                              *)
(***************************************************************************)
\* The 20 bytes at content.data() + pos; data()[size()] is the terminator 0.
RawAt(content, pos) ==
    [k \in 1..SHA_DIGEST_LENGTH |->
        IF pos + k <= Len(content) THEN content[pos + k] ELSE 0]

RECURSIVE checkoutTree(_, _, _), CheckoutLoop(_, _, _, _, _)
CheckoutLoop(objs, content, pos, dir, seen) ==
    IF ~(pos < Len(content)) THEN [status |-> "ok", dir |-> dir]
    ELSE IF pos \in seen THEN [status |-> "hang", dir |-> dir]
    ELSE
      LET spacePos == Find(content, SP, pos)
          mode == Substr(content, pos, spacePos - pos)
          pos1 == spacePos + 1
          nullPos == Find(content, NUL, pos1)
          name == Substr(content, pos1, nullPos - pos1)
          pos2 == nullPos + 1
          sha == shaToHex(RawAt(content, pos2))
          pos3 == pos2 + SHA_DIGEST_LENGTH
      IN  IF pos2 + SHA_DIGEST_LENGTH > Len(content) + 1
            THEN [status |-> "ub", dir |-> dir]
          ELSE IF mode = STR_40000 THEN
            \* create_directories throws if the path is a regular file
            IF HasEntry(dir, name) /\ EntryOf(dir, name).kind # "dir"
              THEN [status |-> "throw", dir |-> dir]
              ELSE LET sub == IF HasEntry(dir, name) THEN EntryOf(dir, name).value
                                                     ELSE <<>>
                       r == checkoutTree(objs, sha, sub)
                       dir1 == PutEntry(dir, Dir(name, r.dir))
                   IN  IF r.status # "ok" THEN [status |-> r.status, dir |-> dir1]
                       ELSE CheckoutLoop(objs, content, pos3, dir1, seen \cup {pos})
          ELSE
            LET r == readObject(objs, sha)
            IN  IF ~r.ok THEN [status |-> "throw", dir |-> dir]
                \* the stream does not open on a directory; nothing is written
                ELSE IF HasEntry(dir, name) /\ EntryOf(dir, name).kind = "dir"
                  THEN CheckoutLoop(objs, content, pos3, dir, seen \cup {pos})
                  ELSE CheckoutLoop(objs, content, pos3,
                                    PutEntry(dir, File(name, r.content)),
                                    seen \cup {pos})

checkoutTree(objs, treeSha, dir) ==
    LET r == readObject(objs, treeSha)
    IN  IF ~r.ok \/ r.type # STR_tree THEN [status |-> "throw", dir |-> dir]
        ELSE CheckoutLoop(objs, r.content, 0, dir, {})

(***************************************************************************)
(* applyDelta.  The result is [status, out]: status is "ok", "throw"       *)
(* (base.substr threw std::out_of_range) or "ub" (delta[pos] was read past *)
(* delta[size()], which is undefined).  delta[size()] itself reads as 0.   *)
(***************************************************************************)
\* cmd & mask, for a mask of one bit.
HasBit(cmd, mask) == (cmd \div mask) % 2 = 1

\* The two size headers: 7 bits per byte, least significant group first,
\* while the input lasts and the high bit is set.
RECURSIVE DeltaSize(_, _, _, _)
DeltaSize(delta, pos, value, scale) ==
    IF ~(pos < Len(delta)) THEN [value |-> value, pos |-> pos]
    ELSE LET b == delta[pos + 1]
             v == value + (b % 128) * scale
         IN  IF b < 128 THEN [value |-> v, pos |-> pos + 1]
             ELSE DeltaSize(delta, pos + 1, v, scale * 128)

\* A CopyOperand that adds the bytes without the shifts.
RECURSIVE CopyOperandUnshifted(_, _, _, _, _, _)
CopyOperandUnshifted(delta, pos, cmd, fields, value, ub) ==
    IF fields = <<>> THEN [value |-> value, pos |-> pos, ub |-> ub]
    ELSE IF ~HasBit(cmd, fields[1][1])
      THEN CopyOperandUnshifted(delta, pos, cmd, Tail(fields), value, ub)
      ELSE CopyOperandUnshifted(delta, pos + 1, cmd, Tail(fields),
                                value + (IF pos < Len(delta) THEN delta[pos + 1]
                                                             ELSE 0),
                                ub \/ pos > Len(delta))

\* The optional bytes of a copy instruction: for every <<mask, scale>> of
\* fields whose mask bit is set in cmd, one byte, multiplied by scale (the
\* shift).  A byte of 128 or more shifted by 24 is a negative int, which
\* becomes a huge size_t.
RECURSIVE CopyOperand(_, _, _, _, _, _)
CopyOperand(delta, pos, cmd, fields, value, ub) ==
    IF fields = <<>> THEN [value |-> value, pos |-> pos, ub |-> ub]
    ELSE IF ~HasBit(cmd, fields[1][1])
      THEN CopyOperand(delta, pos, cmd, Tail(fields), value, ub)
      ELSE LET b == IF pos < Len(delta) THEN delta[pos + 1] ELSE 0
               v == IF fields[1][2] = 16777216 /\ b >= 128 THEN NPOS
                    ELSE value + b * fields[1][2]
           IN  CopyOperand(delta, pos + 1, cmd, Tail(fields), v,
                           ub \/ pos > Len(delta))

CopyOffFields == <<<<1, 1>>, <<2, 256>>, <<4, 65536>>, <<8, 16777216>>>>
CopySizeFields == <<<<16, 1>>, <<32, 256>>, <<64, 65536>>>>

RECURSIVE DeltaLoop(_, _, _, _)
DeltaLoop(base, delta, pos, result) ==
    IF ~(pos < Len(delta)) THEN [status |-> "ok", out |-> result]
    ELSE
      LET cmd == delta[pos + 1]
          Copy(copyOff, siz) ==
              IF siz.ub THEN [status |-> "ub", out |-> result]
              ELSE IF SubstrThrows(base, copyOff)
                THEN [status |-> "throw", out |-> result]
              ELSE DeltaLoop(base, delta, siz.pos,
                             result \o Substr(base, copyOff,
                                              IF siz.value = 0 THEN 65536
                                                               ELSE siz.value))
          CopyFrom(off) ==
              Copy(off.value,
                   CopyOperand(delta, off.pos, cmd, CopySizeFields, 0, off.ub))
      IN  IF cmd >= 128
            THEN CopyFrom(CopyOperand(delta, pos + 1, cmd, CopyOffFields, 0, FALSE))
          ELSE IF cmd > 0 THEN
            DeltaLoop(base, delta, pos + 1 + cmd,
                      result \o Substr(delta, pos + 1, cmd))
          ELSE DeltaLoop(base, delta, pos + 1, result)

\* The declared sizes are read and never compared with anything.
DeltaHeader(delta) ==
    LET src == DeltaSize(delta, 0, 0, 1)
        tgt == DeltaSize(delta, src.pos, 0, 1)
    IN  [srcSize |-> src.value, targetSize |-> tgt.value, pos |-> tgt.pos]

applyDelta(base, delta) == DeltaLoop(base, delta, DeltaHeader(delta).pos, <<>>)

(***************************************************************************)
(* parsePackfile.  PackObject is [type, data, sha, offset, baseSha,        *)
(* baseOffset]; an empty sha is <<>>.  The result of the parse is          *)
(* [status, ...]: "ok", "throw" (an exception), "hang" (the inflate loop   *)
(* of decompressZlibStream never ends) or "ub" (packData was read past     *)
(* packData[size()]).                                                      *)
(***************************************************************************)
OBJ_COMMIT == 1
OBJ_TREE == 2
OBJ_BLOB == 3
OBJ_TAG == 4
OBJ_OFS_DELTA == 6
OBJ_REF_DELTA == 7

typeToString(t) ==
    CASE t = OBJ_COMMIT -> STR_commit
      [] t = OBJ_TREE -> STR_tree
      [] t = OBJ_BLOB -> STR_blob
      [] t = OBJ_TAG -> STR_tag
      [] OTHER -> STR_unknown

\* The value of a local that is computed once: the element of a set of one.
TheOne(S) == CHOOSE x \in S : TRUE

\* packData[pos]; packData[size()] is the terminator, anything past it is
\* outside the string (the caller reports "ub").
PackByte(packData, pos) ==
    IF pos >= 0 /\ pos < Len(packData) THEN packData[pos + 1] ELSE 0

\* decompressZlibStream: Z_BUF_ERROR is let through by the test inside the
\* loop, and the loop only ends on Z_STREAM_END.
decompressZlibStream(data, offset) ==
    LET r == Inflate(data, offset)
    IN  IF r.ret = "Z_STREAM_END"
          THEN [status |-> "ok", out |-> r.out, consumed |-> r.total_in]
        ELSE IF r.ret = "Z_BUF_ERROR"
          THEN [status |-> "hang", out |-> <<>>, consumed |-> 0]
        ELSE [status |-> "throw", out |-> <<>>, consumed |-> 0]

\* The bytes that continue the size of a record header: the position after
\* them.  The size they encode is assigned to a local and never used.
RECURSIVE SizeTail(_, _, _)
SizeTail(packData, pos, b) ==
    IF b < 128 THEN pos ELSE SizeTail(packData, pos + 1, PackByte(packData, pos))

\* The offset of an ofs-delta: negOff = ((negOff + 1) << 7) | (b & 0x7f).
RECURSIVE OfsTail(_, _, _, _)
OfsTail(packData, pos, b, negOff) ==
    IF b < 128 THEN [negOff |-> negOff, pos |-> pos]
    ELSE LET b2 == PackByte(packData, pos)
         IN  OfsTail(packData, pos + 1, b2, (negOff + 1) * 128 + (b2 % 128))

\* One pass of the loop over the records of the pack, from record i on.
\* Record(pos2, obj): the record whose deflated data starts at pos2.
RECURSIVE ParseRecords(_, _, _, _, _)
ParseRecords(packData, pos, i, numObjects, tempObjs) ==
    IF ~(i < numObjects) THEN [status |-> "ok", tempObjs |-> tempObjs]
    ELSE
      LET objOffset == pos
          b == PackByte(packData, pos)
          type == (b \div 16) % 8
          Inflated(pos2, obj, z) ==
              IF z.status # "ok" THEN [status |-> z.status, tempObjs |-> tempObjs]
              ELSE ParseRecords(packData, pos2 + z.consumed, i + 1, numObjects,
                                Append(tempObjs, [obj EXCEPT !.data = z.out]))
          Record(pos2, baseSha, baseOffset) ==
              IF pos2 > Len(packData) THEN [status |-> "ub", tempObjs |-> tempObjs]
              ELSE TheOne({Inflated(pos2,
                                    [type |-> type, data |-> <<>>, sha |-> <<>>,
                                     offset |-> objOffset, baseSha |-> baseSha,
                                     baseOffset |-> baseOffset], z) :
                             z \in {decompressZlibStream(packData, pos2)}})
          \* size_t: a negative difference stands for that value plus 2^64,
          \* which is no offset of the pack either.
          OfsRecord(ofs) == Record(ofs.pos, <<>>, objOffset - ofs.negOff)
          AfterSize(pos1) ==
              IF type = OBJ_OFS_DELTA
                THEN OfsRecord(OfsTail(packData, pos1 + 1, PackByte(packData, pos1),
                                       PackByte(packData, pos1) % 128))
              ELSE IF type = OBJ_REF_DELTA
                THEN Record(pos1 + SHA_DIGEST_LENGTH,
                            shaToHex(RawAt(packData, pos1)), 0)
              ELSE Record(pos1, <<>>, 0)
      IN  AfterSize(SizeTail(packData, pos + 1, b))

EmptyMap == [k \in {} |-> <<>>]

MapPut(m, k, v) == [x \in DOMAIN m \cup {k} |-> IF x = k THEN v ELSE m[x]]

\* objects[obj.sha] = obj; offsetToSha[obj.offset] = obj.sha; for record i.
Publish(st, i, obj, tab, progress) ==
    [st EXCEPT !.tab = tab,
               !.temp[i] = obj,
               !.objects = MapPut(@, obj.sha, obj),
               !.offsetToSha = MapPut(@, obj.offset, obj.sha),
               !.progress = progress]

\* The header of an object, its data, and the digest of both: the record
\* with its digest, and the table that holds the framing.
Digested(tab, obj) ==
    LET WithFraming(framing) ==
            LET WithTab(t) ==
                    [tab |-> t, obj |-> [obj EXCEPT !.sha = computeSha1(t, framing)]]
            IN  WithTab(Intern(tab, framing))
    IN  WithFraming(Framing(typeToString(obj.type), obj.data))

\* A first pass that gives every record a digest, deltas included.
RECURSIVE FirstPassEager(_, _)
FirstPassEager(st, i) ==
    IF i > Len(st.temp) THEN st
    ELSE LET Done(d) == FirstPassEager(Publish(st, i, d.obj, d.tab, st.progress), i + 1)
         IN  Done(Digested(st.tab, st.temp[i]))

\* "First pass": every record that is not a delta gets its digest and is
\* published under its digest and under its offset.
RECURSIVE FirstPass(_, _)
FirstPass(st, i) ==
    IF i > Len(st.temp) THEN st
    ELSE LET obj == st.temp[i]
             Done(d) == FirstPass(Publish(st, i, d.obj, d.tab, st.progress), i + 1)
         IN  IF obj.type # OBJ_OFS_DELTA /\ obj.type # OBJ_REF_DELTA
               THEN TheOne({Done(d) : d \in {Digested(st.tab, obj)}})
               ELSE FirstPass(st, i + 1)

\* One iteration of the loop "for (auto& obj : tempObjs)" inside
\* while (progress), for record i: the record is skipped, or it is replaced
\* by its target and published, or applyDelta throws.
DeltaVisit(st, i) ==
    LET obj == st.temp[i]
        baseSha == IF obj.type = OBJ_OFS_DELTA
                     THEN IF obj.baseOffset \in DOMAIN st.offsetToSha
                            THEN st.offsetToSha[obj.baseOffset] ELSE <<>>
                   ELSE IF obj.type = OBJ_REF_DELTA THEN obj.baseSha
                   ELSE <<>>
        Done(d) == Publish(st, i, d.obj, d.tab, TRUE)
        Applied(base, r) ==
            IF r.status # "ok" THEN [st EXCEPT !.status = r.status]
            ELSE TheOne({Done(d) :
                           d \in {Digested(st.tab, [obj EXCEPT !.data = r.out,
                                                               !.type = base.type])}})
        Resolve(base) ==
            TheOne({Applied(base, r) : r \in {applyDelta(base.data, obj.data)}})
    IN  IF obj.sha # <<>> THEN st
        ELSE IF baseSha = <<>> THEN st
        ELSE IF baseSha \notin DOMAIN st.objects THEN st
        ELSE Resolve(st.objects[baseSha])

\* One pass of that loop, from record i on.
RECURSIVE DeltaPass(_, _)
DeltaPass(st, i) ==
    IF i > Len(st.temp) THEN st
    ELSE LET Visited(r) == IF r.status # "ok" THEN r ELSE DeltaPass(r, i + 1)
         IN  Visited(DeltaVisit(st, i))

\* One pass over the records, and no more.
ResolveOnce(st) == DeltaPass([st EXCEPT !.progress = FALSE], 1)

\* while (progress) { progress = false; ... }
RECURSIVE ResolveLoop(_)
ResolveLoop(st) ==
    LET Again(r) == IF r.status # "ok" \/ ~r.progress THEN r ELSE ResolveLoop(r)
    IN  Again(DeltaPass([st EXCEPT !.progress = FALSE], 1))

ResolveDeltas(tab, tempObjs) ==
    ResolveLoop(FirstPass([tab |-> tab, temp |-> tempObjs, objects |-> EmptyMap,
                           offsetToSha |-> EmptyMap, progress |-> TRUE,
                           status |-> "ok"], 1))

\* parsePackfile: [status, objects, tab]; objects maps a digest to its
\* PackObject.
parsePackfile(tab, packData) ==
    LET numObjects == PackByte(packData, 8) * 16777216
                      + PackByte(packData, 9) * 65536
                      + PackByte(packData, 10) * 256 + PackByte(packData, 11)
        Resolved(r) == [status |-> r.status, objects |-> r.objects, tab |-> r.tab]
        Parsed(p) ==
            IF p.status # "ok"
              THEN [status |-> p.status, objects |-> EmptyMap, tab |-> tab]
              ELSE Resolved(ResolveDeltas(tab, p.tempObjs))
    IN  IF Substr(packData, 0, 4) # STR_PACK
          THEN [status |-> "throw", objects |-> EmptyMap, tab |-> tab]
        ELSE IF Len(packData) < 11
          THEN [status |-> "ub", objects |-> EmptyMap, tab |-> tab]
        ELSE Parsed(ParseRecords(packData, 12, 0, numObjects, <<>>))

(***************************************************************************)
(* pkt-lines and the helpers of cloneRepository.                           *)
(***************************************************************************)
IsHexDigit(c) == c \in (48..57) \cup (97..102) \cup (65..70)

HexDigitValue(c) == IF c >= 97 THEN c - 87 ELSE IF c >= 65 THEN c - 55 ELSE c - 48

\* std::stoi(s, nullptr, 16): the value of the longest prefix of hex digits;
\* std::invalid_argument if there is none.  (Leading white space, a sign and
\* a 0x prefix, which stoi also accepts, are not modelled: no response drawn
\* below uses them.)
RECURSIVE StoiLoop(_, _, _)
StoiLoop(s, i, value) ==
    IF i > Len(s) \/ ~IsHexDigit(s[i]) THEN [n |-> i - 1, value |-> value]
    ELSE StoiLoop(s, i + 1, value * 16 + HexDigitValue(s[i]))

stoi16(s) ==
    LET r == StoiLoop(s, 1, 0) IN [ok |-> r.n > 0, value |-> r.value]

\* parsePktLines: [status, lines].
RECURSIVE PktLoop(_, _, _)
PktLoop(data, pos, lines) ==
    IF ~(pos + 4 <= Len(data)) THEN [status |-> "ok", lines |-> lines]
    ELSE
      LET lenHex == Substr(data, pos, 4)
          c == stoi16(lenHex)
          len == c.value
          line == Substr(data, pos + 4, len - 4)
          popped == IF line # <<>> /\ line[Len(line)] = LF
                      THEN SubSeq(line, 1, Len(line) - 1) ELSE line
      IN  IF ~c.ok THEN [status |-> "throw", lines |-> lines]
          ELSE IF len = 0 THEN PktLoop(data, pos + 4, lines)
          ELSE IF len < 4 \/ pos + len > Len(data)
            THEN [status |-> "ok", lines |-> lines]
          ELSE PktLoop(data, pos + len, Append(lines, popped))

parsePktLines(data) == PktLoop(data, 0, <<>>)

\* std::hex << std::setfill('0') << std::setw(4): at least four hex digits.
RECURSIVE HexDigits(_)
HexDigits(n) ==
    IF n < 16 THEN <<HexDigit(n)>> ELSE HexDigits(n \div 16) \o <<HexDigit(n % 16)>>

createPktLine(data) ==
    LET digits == HexDigits(Len(data) + 4)
        pad == [k \in 1..(4 - Len(digits)) |-> 48]
    IN  pad \o digits \o data

\* std::string::find(const char*): the first position where pat starts.
FindStr(s, pat) ==
    LET hits == {p \in 0..(Len(s) - Len(pat)) : Substr(s, p, Len(pat)) = pat}
    IN  IF hits = {} THEN NPOS ELSE CHOOSE p \in hits : \A q \in hits : p <= q

\* The loop of cloneRepository over the advertised lines: [headSha, headRef].
\* A discovery in which the first digest found stays: HEAD does not replace
\* the digest of a branch listed before it.
RECURSIVE DiscoverRefsFirstWins(_, _, _)
DiscoverRefsFirstWins(lines, headSha, headRef) ==
    IF lines = <<>> THEN [headSha |-> headSha, headRef |-> headRef]
    ELSE
      LET line == lines[1]
          sp == Find(line, SP, 0)
          sha == Substr(line, 0, sp)
          refPart == SubstrFrom(line, sp + 1)
          np == Find(refPart, NUL, 0)
          ref == IF np # NPOS THEN Substr(refPart, 0, np) ELSE refPart
      IN  IF FindStr(line, STR_service) # NPOS \/ sp = NPOS
             \/ Len(sha) # 2 * SHA_DIGEST_LENGTH
            THEN DiscoverRefsFirstWins(Tail(lines), headSha, headRef)
          ELSE IF ref = STR_HEAD
            THEN DiscoverRefsFirstWins(Tail(lines),
                                       IF headSha = <<>> THEN sha ELSE headSha, headRef)
          ELSE IF ref = STR_master \/ ref = STR_main
            THEN DiscoverRefsFirstWins(Tail(lines),
                                       IF headSha = <<>> THEN sha ELSE headSha, ref)
          ELSE DiscoverRefsFirstWins(Tail(lines), headSha, headRef)

RECURSIVE DiscoverRefs(_, _, _)
DiscoverRefs(lines, headSha, headRef) ==
    IF lines = <<>> THEN [headSha |-> headSha, headRef |-> headRef]
    ELSE
      LET line == lines[1]
          sp == Find(line, SP, 0)
          sha == Substr(line, 0, sp)
          refPart == SubstrFrom(line, sp + 1)
          np == Find(refPart, NUL, 0)
          ref == IF np # NPOS THEN Substr(refPart, 0, np) ELSE refPart
      IN  IF FindStr(line, STR_service) # NPOS
            THEN DiscoverRefs(Tail(lines), headSha, headRef)
          ELSE IF sp = NPOS THEN DiscoverRefs(Tail(lines), headSha, headRef)
          ELSE IF Len(sha) # 2 * SHA_DIGEST_LENGTH
            THEN DiscoverRefs(Tail(lines), headSha, headRef)
          ELSE IF ref = STR_HEAD THEN DiscoverRefs(Tail(lines), sha, headRef)
          ELSE IF ref = STR_master \/ ref = STR_main
            THEN DiscoverRefs(Tail(lines),
                              IF headSha = <<>> THEN sha ELSE headSha, ref)
          ELSE DiscoverRefs(Tail(lines), headSha, headRef)

\* The request of the pack: one want, a flush, done.
PackRequest(headSha) ==
    createPktLine(STR_want_sp \o headSha \o <<LF>>) \o STR_0000
    \o createPktLine(STR_done)

\* The smallest key of a std::map<std::string, ...>, the order of iteration.
FirstKey(keys) == CHOOSE k \in keys : \A q \in keys : q = k \/ StrLess(k, q)

\* The loop of cloneRepository that stores every object of the pack.
RECURSIVE WritePackObjects(_, _, _, _)
WritePackObjects(objs, packObjects, keys, fsok) ==
    IF keys = {} THEN objs
    ELSE LET sha == FirstKey(keys)
             obj == packObjects[sha]
         IN  WritePackObjects(
                 writeObjectWithSha(objs, Framing(typeToString(obj.type), obj.data),
                                    sha, fsok),
                 packObjects, keys \ {sha}, fsok)

\* The loop over the lines of the commit (std::getline): the rest of the
\* first line that starts with "tree ", or the empty string.
RECURSIVE CommitTreeLine(_, _)
CommitTreeLine(commitContent, pos) ==
    IF pos >= Len(commitContent) THEN <<>>
    ELSE LET nl == Find(commitContent, LF, pos)
             end == IF nl = NPOS THEN Len(commitContent) ELSE nl
             line == SubSeq(commitContent, pos + 1, end)
         IN  IF Substr(line, 0, 5) = STR_tree_sp THEN SubstrFrom(line, 5)
             ELSE CommitTreeLine(commitContent, end + 1)

(***************************************************************************)
(* The remote side: how a server lays out a pack and its advertisement.    *)
(* This is the environment of clone; the formats are those the parser      *)
(* above reads.                                                            *)
(***************************************************************************)
\* 7 bits per byte, least significant group first, high bit = more follows.
RECURSIVE Varint(_)
Varint(n) == IF n < 128 THEN <<n>> ELSE <<128 + (n % 128)>> \o Varint(n \div 128)

\* The header of a record: type in bits 4..6, size in the low 4 bits and on.
PackRecordHeader(type, size) ==
    IF size < 16 THEN <<type * 16 + size>>
    ELSE <<128 + type * 16 + (size % 16)>> \o Varint(size \div 16)

\* The distance of an ofs-delta to its base, most significant group first,
\* each continuation adding one.
RECURSIVE OfsHigh(_)
OfsHigh(m) ==
    (IF (m - 1) \div 128 > 0 THEN OfsHigh((m - 1) \div 128) ELSE <<>>)
    \o <<128 + ((m - 1) % 128)>>

EncodeOfs(n) == (IF n \div 128 > 0 THEN OfsHigh(n \div 128) ELSE <<>>) \o <<n % 128>>

InsertCmd(bytes) == IF bytes = <<>> THEN <<>> ELSE <<Len(bytes)>> \o bytes

\* A delta from base to target: a copy of the whole base when target starts
\* with it, then an insert of the rest.
MakeDelta(base, target) ==
    LET n == Len(base)
    IN  Varint(n) \o Varint(Len(target))
        \o (IF n > 0 /\ Len(target) >= n /\ SubSeq(target, 1, n) = base
              THEN <<144, n>> \o InsertCmd(SubSeq(target, n + 1, Len(target)))
              ELSE InsertCmd(target))

\* A delta whose copy instruction starts at offset 9 of a base that is
\* shorter: base.substr throws.
BadDelta(base) == Varint(Len(base)) \o Varint(1) \o <<145, 9, 1>>

\* Records of a pack to build.  back is the index, in the pack, of the base
\* of an ofs-delta (kind "ofs"), or the distance itself (kind "ofsraw"); cut
\* says that the deflated stream is cut short.
BaseRec(o) ==
    [kind |-> "base", type |-> o.type, data |-> o.payload, base |-> <<>>,
     back |-> 0, cut |-> FALSE]

RefRec(o, b) ==
    [kind |-> "ref", type |-> OBJ_REF_DELTA, data |-> MakeDelta(b.payload, o.payload),
     base |-> b.sha, back |-> 0, cut |-> FALSE]

OfsRec(o, b, back) ==
    [kind |-> "ofs", type |-> OBJ_OFS_DELTA, data |-> MakeDelta(b.payload, o.payload),
     base |-> <<>>, back |-> back, cut |-> FALSE]

RECURSIVE BuildRecords(_, _, _, _)
BuildRecords(recs, i, bytes, offsets) ==
    IF i > Len(recs) THEN bytes
    ELSE
      LET r == recs[i]
          offset == 12 + Len(bytes)
          link == IF r.kind = "ofs" THEN EncodeOfs(offset - offsets[r.back])
                  ELSE IF r.kind = "ofsraw" THEN EncodeOfs(r.back)
                  ELSE IF r.kind = "ref" THEN HexToRaw(r.base)
                  ELSE <<>>
          z == compressZlib(r.data)
          body == IF r.cut THEN SubSeq(z, 1, Len(z) - 2) ELSE z
      IN  BuildRecords(recs, i + 1,
                       bytes \o PackRecordHeader(r.type, Len(r.data)) \o link \o body,
                       Append(offsets, offset))

\* "PACK", version 2, the number of records, the records, a 20-byte trailer
\* (which the client never reads).
BuildPack(recs) ==
    STR_PACK \o <<0, 0, 0, 2>> \o <<0, 0, 0, Len(recs)>>
    \o BuildRecords(recs, 1, <<>>, <<>>) \o [k \in 1..SHA_DIGEST_LENGTH |-> 0]

(***************************************************************************)
(* The repository the remote serves: two blobs, a tree inside a tree, one  *)
(* commit, and one object (x) that it never sends.  The remote has hashed  *)
(* its objects, so they are in the table the digests are drawn from.       *)
(***************************************************************************)
NAME_a == <<97>>
NAME_a_dot == <<97, 46>>
NAME_a_b == <<97, SP, 98>>
NAME_d == <<100>>
NAME_e == <<101>>
NAME_high == <<200>>
SrvBlob1 == <<104, 105, LF>>
SrvBlob2 == <<104, 105, LF, 121, 111>>
SrvBlobX == <<120>>
STR_upload_pack ==
    <<103, 105, 116, 45, 117, 112, 108, 111, 97, 100, 45, 112, 97, 99, 107>>
STR_NAK == <<78, 65, 75, LF>>
STR_caps == <<111, 102, 115, 45, 100, 101, 108, 116, 97>>

SrvCommitContent(treeSha) ==
    STR_tree_sp \o treeSha \o <<LF>> \o STR_author_line \o STR_committer_line
    \o <<LF>> \o <<109, LF>>

Hashed(tab, type, payload) ==
    LET framing == Framing(typeToString(type), payload)
        t == Intern(tab, framing)
    IN  [tab |-> t, type |-> type, payload |-> payload,
         sha |-> computeSha1(t, framing)]

TreeLine(mode, name, sha) == [mode |-> mode, name |-> name, sha |-> HexToRaw(sha)]

ServerRepo(tab) ==
    LET b1 == Hashed(tab, OBJ_BLOB, SrvBlob1)
        b2 == Hashed(b1.tab, OBJ_BLOB, SrvBlob2)
        t1 == Hashed(b2.tab, OBJ_TREE,
                     TreeContent(<<TreeLine(STR_100644, NAME_a, b1.sha)>>))
        t2 == Hashed(t1.tab, OBJ_TREE,
                     TreeContent(<<TreeLine(STR_40000, NAME_d, t1.sha),
                                   TreeLine(STR_100644, NAME_e, b2.sha)>>))
        c == Hashed(t2.tab, OBJ_COMMIT, SrvCommitContent(t2.sha))
        x == Hashed(c.tab, OBJ_BLOB, SrvBlobX)
    IN  [tab |-> x.tab, b1 |-> b1, b2 |-> b2, t1 |-> t1, t2 |-> t2, c |-> c, x |-> x]

\* The records of the pack the remote answers with.
PackRecords(repo, pack) ==
    CASE pack = "plain" ->
           <<BaseRec(repo.c), BaseRec(repo.t2), BaseRec(repo.t1), BaseRec(repo.b1),
             BaseRec(repo.b2)>>
      [] pack = "refdelta" ->
           <<BaseRec(repo.c), BaseRec(repo.t2), BaseRec(repo.t1),
             RefRec(repo.b2, repo.b1), BaseRec(repo.b1)>>
      [] pack = "ofsdelta" ->
           <<BaseRec(repo.c), BaseRec(repo.t2), BaseRec(repo.t1), BaseRec(repo.b1),
             OfsRec(repo.b2, repo.b1, 4)>>
      [] pack = "thin" ->
           <<BaseRec(repo.c), BaseRec(repo.t2), BaseRec(repo.t1), BaseRec(repo.b1),
             RefRec(repo.b2, repo.x)>>
      [] pack = "nocommit" ->
           <<BaseRec(repo.t2), BaseRec(repo.t1), BaseRec(repo.b1), BaseRec(repo.b2)>>
      [] pack = "notree" -> <<BaseRec(repo.c)>>
      [] pack = "baddelta" ->
           <<BaseRec(repo.b1),
             [RefRec(repo.b2, repo.b1) EXCEPT !.data = BadDelta(repo.b1.payload)]>>
      [] OTHER -> <<>>

\* The body of the answer to the POST: "fail" is a transfer error.
PackResponse(repo, pack) ==
    IF pack = "nopack" THEN createPktLine(STR_NAK)
    ELSE IF pack = "truncated"
      THEN LET full == BuildPack(PackRecords(repo, "plain"))
           IN  createPktLine(STR_NAK) \o SubSeq(full, 1, Len(full) - 22)
    ELSE createPktLine(STR_NAK) \o BuildPack(PackRecords(repo, pack))

RefLine(sha, ref, caps) ==
    createPktLine(sha \o <<SP>> \o ref
                  \o (IF caps THEN <<NUL>> \o STR_caps ELSE <<>>) \o <<LF>>)

\* The body of the answer to the GET: "fail" is a transfer error.
Advertisement(repo, advert) ==
    LET svc == createPktLine(STR_service \o STR_upload_pack \o <<LF>>) \o STR_0000
    IN  CASE advert = "head_master" ->
               svc \o RefLine(repo.c.sha, STR_HEAD, TRUE)
               \o RefLine(repo.c.sha, STR_master, FALSE) \o STR_0000
          [] advert = "main_only" ->
               svc \o RefLine(repo.c.sha, STR_main, TRUE) \o STR_0000
          [] advert = "head_only" ->
               svc \o RefLine(repo.c.sha, STR_HEAD, TRUE) \o STR_0000
          [] OTHER -> svc \o STR_0000

Scen(advert, pack) == [advert |-> advert, pack |-> pack]

\* The remotes a clone is run against.
Scenarios ==
    { Scen("head_master", "plain"), Scen("main_only", "refdelta"),
      Scen("head_only", "ofsdelta"), Scen("head_master", "thin"),
      Scen("head_only", "nocommit"), Scen("main_only", "notree"),
      Scen("none", "plain"), Scen("fail", "plain"),
      Scen("head_master", "nopack"), Scen("head_master", "fail"),
      Scen("head_only", "truncated"), Scen("main_only", "baddelta") }

\* The object files cannot be opened in some runs against this remote.
FsOk(scen) == IF scen.pack = "plain" THEN BOOLEAN ELSE {TRUE}

(***************************************************************************)
(* Inputs of the local commands.                                           *)
(***************************************************************************)
\* The files given to hash-object: empty, "hi\n\0".
Contents == {<<>>, <<104, 105, LF, NUL>>}

\* The directories write-tree is run in (without the repository).
Dirs ==
    { <<File(NAME_high, <<LF>>), File(NAME_a, <<>>)>>,
      <<File(NAME_a_dot, <<LF>>), Dir(NAME_a, <<File(NAME_a, <<NUL>>)>>)>>,
      <<Dir(NAME_d, <<File(STR_dotgit, <<NUL>>)>>)>> }

Messages == {<<>>, <<109>>}

(***************************************************************************)
(* The state.                                                              *)
(***************************************************************************)
VARIABLES
    shaTab,     \* the byte strings hashed so far (the SHA-1 oracle)
    objects,    \* the loose-object store: object path -> bytes of the file
    refFiles,   \* HEAD and the ref files under the repository directory
    worktree,   \* the working directory (without the repository)
    last,       \* the last command that ended: [cmd, input, exit, out, fsok]
    printed,    \* the digests printed or returned: [cmd, input, sha, fsok]
    ncmds,      \* the number of commands run
    cl,         \* the clone in progress, or the last one
    aux         \* the input and the result of a function run on its own

vars == <<shaTab, objects, refFiles, worktree, last, printed, ncmds, cl, aux>>

EXIT_SUCCESS == 0
EXIT_FAILURE == 1
\* The process did not exit by itself (it loops for ever, or it was killed).
NO_EXIT == 2

EmptyFiles == [p \in {} |-> <<>>]

NoScen == [advert |-> "", pack |-> ""]

IdleClone ==
    [pc |-> "idle", scen |-> NoScen, fsok |-> TRUE, status |-> "ok",
     headSha |-> <<>>, headRef |-> <<>>, req |-> <<>>, packData |-> <<>>,
     headOpen |-> FALSE, headBuf |-> <<>>]

NoAux == [phase |-> "none"]

\* The repository after `init`: empty objects/, HEAD pointing to main.
Fresh ==
    /\ shaTab = <<>>
    /\ objects = EmptyFiles
    /\ refFiles = [p \in {STR_HEAD} |-> STR_ref_sp \o STR_main \o <<LF>>]
    /\ worktree = <<>>
    /\ last = [cmd |-> "init", input |-> <<>>, exit |-> EXIT_SUCCESS, out |-> <<>>,
               fsok |-> TRUE]
    /\ printed = {}
    /\ ncmds = 0
    /\ cl = IdleClone

Init == Fresh /\ aux = NoAux

\* The digests given to cat-file: those the user has seen, one that names no
\* object, and one that is not 40 characters long.
ShaArgs ==
    {r.sha : r \in printed}
    \cup {shaToHex(RawDigest(Len(shaTab) + 1)), <<97, 98>>}

\* The digests given to commit-tree: those write-tree printed, and one that
\* is not 40 characters long.
TreeArgs == {r.sha : r \in {q \in printed : q.cmd = "write-tree"}} \cup {<<97, 98>>}

(***************************************************************************)
(* hash-object -w <file>.  content: the bytes of the file; fsok: whether   *)
(* the object file can be opened for writing.                              *)
(***************************************************************************)
HashObjectResult(tab, objs, content, fsok) ==
    LET blobData == Framing(STR_blob, content)
        tab1 == Intern(tab, blobData)
        sha1Hash == computeSha1(tab1, blobData)
        compressedData == compressZlib(blobData)
    IN  IF ~fsok
          THEN [tab |-> tab1, objs |-> objs, exit |-> EXIT_FAILURE, out |-> <<>>,
                sha |-> sha1Hash]
          ELSE [tab |-> tab1,
                objs |-> WriteFile(objs, ObjectPath(sha1Hash), compressedData),
                exit |-> EXIT_SUCCESS, out |-> sha1Hash \o <<LF>>, sha |-> sha1Hash]

HashObject(content, fsok) ==
    LET r == HashObjectResult(shaTab, objects, content, fsok)
    IN  /\ cl.pc = "idle"
        /\ ncmds < MaxCmds
        /\ shaTab' = r.tab
        /\ objects' = r.objs
        /\ last' = [cmd |-> "hash-object", input |-> content, exit |-> r.exit,
                    out |-> r.out, fsok |-> fsok]
        /\ printed' = IF r.exit = EXIT_SUCCESS
                        THEN printed \cup {[cmd |-> "hash-object", input |-> content,
                                            sha |-> r.sha, fsok |-> fsok]}
                        ELSE printed
        /\ ncmds' = ncmds + 1
        /\ UNCHANGED <<refFiles, worktree, cl, aux>>

(***************************************************************************)
(* cat-file -p <sha>.                                                      *)
(***************************************************************************)
\* A cat-file that prints from the NUL on, not from the byte after it.
CatFileResultFromNul(objs, blobSha) ==
    IF Len(blobSha) # 2 * SHA_DIGEST_LENGTH
      THEN [exit |-> EXIT_FAILURE, out |-> <<>>]
    ELSE IF ObjectPath(blobSha) \notin DOMAIN objs
      THEN [exit |-> EXIT_FAILURE, out |-> <<>>]
    ELSE LET z == decompressZlib(objs[ObjectPath(blobSha)])
             nullPos == Find(z.out, NUL, 0)
         IN  IF ~z.ok THEN [exit |-> EXIT_FAILURE, out |-> <<>>]
             ELSE IF nullPos = NPOS THEN [exit |-> EXIT_FAILURE, out |-> <<>>]
             ELSE [exit |-> EXIT_SUCCESS, out |-> SubstrFrom(z.out, nullPos)]

CatFileResult(objs, blobSha) ==
    IF Len(blobSha) # 2 * SHA_DIGEST_LENGTH
      THEN [exit |-> EXIT_FAILURE, out |-> <<>>]
    ELSE IF ObjectPath(blobSha) \notin DOMAIN objs
      THEN [exit |-> EXIT_FAILURE, out |-> <<>>]
    ELSE LET z == decompressZlib(objs[ObjectPath(blobSha)])
             nullPos == Find(z.out, NUL, 0)
         IN  IF ~z.ok THEN [exit |-> EXIT_FAILURE, out |-> <<>>]
             ELSE IF nullPos = NPOS THEN [exit |-> EXIT_FAILURE, out |-> <<>>]
             ELSE [exit |-> EXIT_SUCCESS, out |-> SubstrFrom(z.out, nullPos + 1)]

CatFile(blobSha) ==
    LET r == CatFileResult(objects, blobSha)
    IN  /\ cl.pc = "idle"
        /\ ncmds < MaxCmds
        /\ last' = [cmd |-> "cat-file", input |-> blobSha, exit |-> r.exit,
                    out |-> r.out, fsok |-> TRUE]
        /\ ncmds' = ncmds + 1
        /\ UNCHANGED <<shaTab, objects, refFiles, worktree, printed, cl, aux>>

(***************************************************************************)
(* write-tree.  dir: what the current directory holds when the command is  *)
(* run, without the repository.                                            *)
(***************************************************************************)
WriteTree(dir, fsok) ==
    LET w == writeTree([tab |-> shaTab, objs |-> objects], dir, fsok)
    IN  /\ cl.pc = "idle"
        /\ ncmds < MaxCmds
        /\ shaTab' = w.tab
        /\ objects' = w.objs
        /\ worktree' = dir
        /\ last' = [cmd |-> "write-tree", input |-> dir, exit |-> EXIT_SUCCESS,
                    out |-> w.sha \o <<LF>>, fsok |-> fsok]
        /\ printed' = printed \cup {[cmd |-> "write-tree", input |-> dir,
                                     sha |-> w.sha, fsok |-> fsok]}
        /\ ncmds' = ncmds + 1
        /\ UNCHANGED <<refFiles, cl, aux>>

(***************************************************************************)
(* commit-tree <tree> -p <parent> -m <message>.                            *)
(***************************************************************************)
CommitContent(treeSha, parentSha, message) ==
    STR_tree_sp \o treeSha \o <<LF>> \o STR_parent_sp \o parentSha \o <<LF>>
    \o STR_author_line \o STR_committer_line \o <<LF>> \o message \o <<LF>>

CommitTree(treeSha, parentSha, message, fsok) ==
    /\ cl.pc = "idle"
    /\ ncmds < MaxCmds
    /\ ncmds' = ncmds + 1
    /\ IF \/ Len(treeSha) # 2 * SHA_DIGEST_LENGTH
          \/ Len(parentSha) # 2 * SHA_DIGEST_LENGTH
          \/ message = <<>>
         THEN /\ last' = [cmd |-> "commit-tree", input |-> treeSha,
                          exit |-> EXIT_FAILURE, out |-> <<>>, fsok |-> fsok]
              /\ UNCHANGED <<shaTab, objects, printed>>
         ELSE LET commitContent == CommitContent(treeSha, parentSha, message)
                  w == writeObject([tab |-> shaTab, objs |-> objects],
                                   Framing(STR_commit, commitContent), fsok)
              IN  /\ shaTab' = w.tab
                  /\ objects' = w.objs
                  /\ last' = [cmd |-> "commit-tree", input |-> treeSha,
                              exit |-> EXIT_SUCCESS, out |-> w.sha \o <<LF>>,
                              fsok |-> fsok]
                  /\ printed' = printed \cup {[cmd |-> "commit-tree",
                                               input |-> treeSha, sha |-> w.sha,
                                               fsok |-> fsok]}
    /\ UNCHANGED <<refFiles, worktree, cl, aux>>

(***************************************************************************)
(* clone <url> .  cloneRepository in the steps it takes, one action each.  *)
(* scen: the remote; fsok: whether the object files of this run can be     *)
(* opened for writing.  cl.status is how the function ends: "ok", "throw"  *)
(* (an exception, which main catches), "hang" or "ub".                     *)
(***************************************************************************)
\* Discover refs: GET info/refs, the pkt-lines, headSha and headRef.
CloneDiscover(scen, fsok) ==
    LET repo == ServerRepo(shaTab)
        parsed == parsePktLines(Advertisement(repo, scen.advert))
        refs == DiscoverRefs(parsed.lines, <<>>, <<>>)
        status == IF scen.advert = "fail" THEN "throw"
                  ELSE IF parsed.status # "ok" THEN parsed.status
                  ELSE IF refs.headSha = <<>> THEN "throw"
                  ELSE "ok"
    IN  /\ cl.pc = "idle"
        /\ ncmds < MaxCmds
        /\ shaTab' = repo.tab
        /\ cl' = IF status = "ok"
                   THEN [IdleClone EXCEPT !.pc = "request", !.scen = scen,
                                          !.fsok = fsok,
                                          !.headSha = refs.headSha,
                                          !.headRef = refs.headRef]
                   ELSE [IdleClone EXCEPT !.pc = "exit", !.scen = scen,
                                          !.fsok = fsok, !.status = status]
        /\ UNCHANGED <<objects, refFiles, worktree, last, printed, ncmds, aux>>

\* Request packfile: POST the want, find "PACK" in the answer.
CloneRequest ==
    LET packResp == PackResponse(ServerRepo(shaTab), cl.scen.pack)
        packPos == FindStr(packResp, STR_PACK)
    IN  /\ cl.pc = "request"
        /\ cl' = IF cl.scen.pack = "fail" \/ packPos = NPOS
                   THEN [cl EXCEPT !.pc = "exit", !.status = "throw",
                                   !.req = PackRequest(cl.headSha)]
                   ELSE [cl EXCEPT !.pc = "unpack",
                                   !.req = PackRequest(cl.headSha),
                                   !.packData = SubstrFrom(packResp, packPos)]
        /\ UNCHANGED <<shaTab, objects, refFiles, worktree, last, printed, ncmds,
                       aux>>

\* A clone that goes from the objects straight to the checkout.
CloneUnpackThenCheckout ==
    /\ cl.pc = "unpack"
    /\ \E r \in {parsePackfile(shaTab, cl.packData)} :
          /\ shaTab' = r.tab
          /\ IF r.status = "ok"
               THEN /\ objects' = WritePackObjects(objects, r.objects,
                                                   DOMAIN r.objects, cl.fsok)
                    /\ cl' = [cl EXCEPT !.pc = "checkout"]
               ELSE /\ objects' = objects
                    /\ cl' = [cl EXCEPT !.pc = "exit", !.status = r.status]
    /\ UNCHANGED <<refFiles, worktree, last, printed, ncmds, aux>>

\* A clone that writes the objects the parser has produced whether or not
\* the parser ended well.
CloneUnpackAsParsed ==
    /\ cl.pc = "unpack"
    /\ \E r \in {parsePackfile(shaTab, cl.packData)} :
          /\ shaTab' = r.tab
          /\ objects' = WritePackObjects(objects, r.objects, DOMAIN r.objects,
                                         cl.fsok)
          /\ cl' = IF r.status = "ok" THEN [cl EXCEPT !.pc = "head"]
                   ELSE [cl EXCEPT !.pc = "exit", !.status = r.status]
    /\ UNCHANGED <<refFiles, worktree, last, printed, ncmds, aux>>

\* Parse and write objects.
CloneUnpack ==
    /\ cl.pc = "unpack"
    /\ \E r \in {parsePackfile(shaTab, cl.packData)} :
          /\ shaTab' = r.tab
          /\ IF r.status = "ok"
               THEN /\ objects' = WritePackObjects(objects, r.objects,
                                                   DOMAIN r.objects, cl.fsok)
                    /\ cl' = [cl EXCEPT !.pc = "head"]
               ELSE /\ objects' = objects
                    /\ cl' = [cl EXCEPT !.pc = "exit", !.status = r.status]
    /\ UNCHANGED <<refFiles, worktree, last, printed, ncmds, aux>>

\* Write HEAD.  headFile is opened, which truncates HEAD, and what is written
\* to it stays in the stream's buffer until headFile is destroyed; the ref
\* file is written by a temporary stream, destroyed with the statement.
CloneHead ==
    LET opened == WriteFile(refFiles, STR_HEAD, <<>>)
    IN  /\ cl.pc = "head"
        /\ IF cl.headRef = <<>>
             THEN /\ refFiles' = opened
                  /\ cl' = [cl EXCEPT !.pc = "checkout", !.headOpen = TRUE,
                                      !.headBuf = cl.headSha \o <<LF>>]
             ELSE /\ refFiles' = WriteFile(opened, cl.headRef, cl.headSha \o <<LF>>)
                  /\ cl' = [cl EXCEPT !.pc = "checkout", !.headOpen = TRUE,
                                      !.headBuf = STR_ref_sp \o cl.headRef \o <<LF>>]
        /\ UNCHANGED <<shaTab, objects, worktree, last, printed, ncmds, aux>>

\* Checkout: the commit of headSha, its tree line, checkoutTree into the
\* target directory.
CloneCheckout ==
    LET commit == readObject(objects, cl.headSha)
        treeSha == CommitTreeLine(commit.content, 0)
        r == checkoutTree(objects, treeSha, worktree)
    IN  /\ cl.pc = "checkout"
        /\ IF ~commit.ok \/ treeSha = <<>>
             THEN /\ worktree' = worktree
                  /\ cl' = [cl EXCEPT !.pc = "exit", !.status = "throw"]
             ELSE /\ worktree' = r.dir
                  /\ cl' = [cl EXCEPT !.pc = "exit", !.status = r.status]
        /\ UNCHANGED <<shaTab, objects, refFiles, last, printed, ncmds, aux>>

\* How the process ends.  A return and an exception both destroy headFile,
\* which writes its buffer to HEAD.  A process that loops for ever, or that
\* undefined behaviour brought down, leaves HEAD as it is.  Undefined
\* behaviour (a read past the end of a string) either brings the process down
\* or yields bytes that name no object, which ends in an exception.
CloneEnd(outcome) ==
    /\ cl.pc = "exit"
    /\ outcome \in (CASE cl.status = "ok" -> {"return"}
                      [] cl.status = "throw" -> {"exception"}
                      [] cl.status = "hang" -> {"killed"}
                      [] OTHER -> {"exception", "killed"})
    /\ refFiles' = IF cl.headOpen /\ outcome # "killed"
                     THEN WriteFile(refFiles, STR_HEAD, cl.headBuf)
                     ELSE refFiles
    /\ last' = [cmd |-> "clone", input |-> <<>>,
                exit |-> CASE outcome = "return" -> EXIT_SUCCESS
                           [] outcome = "exception" -> EXIT_FAILURE
                           [] OTHER -> NO_EXIT,
                out |-> <<>>, fsok |-> cl.fsok]
    /\ ncmds' = ncmds + 1
    /\ cl' = [cl EXCEPT !.pc = "idle"]
    /\ UNCHANGED <<shaTab, objects, worktree, printed, aux>>

CloneExit == \E outcome \in {"return", "exception", "killed"} : CloneEnd(outcome)

Next ==
    \/ \E content \in Contents, fsok \in BOOLEAN : HashObject(content, fsok)
    \/ \E sha \in ShaArgs : CatFile(sha)
    \/ \E dir \in Dirs, fsok \in BOOLEAN : WriteTree(dir, fsok)
    \/ \E sha \in TreeArgs, message \in Messages :
          \E fsok \in (IF message = <<>> THEN {TRUE} ELSE BOOLEAN) :
             CommitTree(sha, sha, message, fsok)
    \/ \E scen \in Scenarios : \E fsok \in FsOk(scen) : CloneDiscover(scen, fsok)
    \/ CloneRequest
    \/ CloneUnpack
    \/ CloneHead
    \/ CloneCheckout
    \/ CloneExit

Spec == Init /\ [][Next]_vars

(***************************************************************************)
(* The store on its own: writeObject ("Write") and writeObjectWithSha      *)
(* ("WriteRaw") applied to framings, the second with the digest its caller *)
(* computed from the framing.                                              *)
(***************************************************************************)
StoreKinds == {STR_blob, STR_tree}

StorePayloads == {<<>>, <<NUL>>, <<104, 105, LF>>}

StoreWrite(kind, payload, fsok) ==
    /\ ncmds < MaxCmds
    /\ \E w \in {writeObject([tab |-> shaTab, objs |-> objects],
                             Framing(kind, payload), fsok)} :
          /\ shaTab' = w.tab
          /\ objects' = w.objs
          /\ last' = [cmd |-> "Write", input |-> Framing(kind, payload),
                      exit |-> EXIT_SUCCESS, out |-> w.sha, fsok |-> fsok]
          /\ printed' = printed \cup {[cmd |-> "Write",
                                       input |-> Framing(kind, payload),
                                       sha |-> w.sha, fsok |-> fsok]}
    /\ ncmds' = ncmds + 1
    /\ UNCHANGED <<refFiles, worktree, cl, aux>>

StoreWriteRaw(kind, payload, fsok) ==
    /\ ncmds < MaxCmds
    /\ \E tab \in {Intern(shaTab, Framing(kind, payload))} :
          \E sha \in {computeSha1(tab, Framing(kind, payload))} :
             /\ shaTab' = tab
             /\ objects' = writeObjectWithSha(objects, Framing(kind, payload), sha,
                                              fsok)
             /\ last' = [cmd |-> "WriteRaw", input |-> Framing(kind, payload),
                         exit |-> EXIT_SUCCESS, out |-> sha, fsok |-> fsok]
             /\ printed' = printed \cup {[cmd |-> "WriteRaw",
                                          input |-> Framing(kind, payload),
                                          sha |-> sha, fsok |-> fsok]}
    /\ ncmds' = ncmds + 1
    /\ UNCHANGED <<refFiles, worktree, cl, aux>>

NextStore ==
    \/ \E kind \in StoreKinds, payload \in StorePayloads, fsok \in BOOLEAN :
          StoreWrite(kind, payload, fsok)
    \/ \E kind \in StoreKinds, payload \in StorePayloads, fsok \in BOOLEAN :
          StoreWriteRaw(kind, payload, fsok)

SpecStore == Init /\ [][NextStore]_vars

(***************************************************************************)
(* The store after a run that went wrong: the file of one object is there, *)
(* but it does not hold the deflated framing (aux.wrong).  The object is   *)
(* then written again, by writeObject or by writeObjectWithSha, and read   *)
(* by readObject ("Read").                                                 *)
(***************************************************************************)
\* What the file holds: the deflated framing cut short, nothing, a stream
\* that inflates to a header with no NUL after it, or (the run went well)
\* the deflated framing.
WrongFiles(kind, payload) ==
    { SubSeq(compressZlib(Framing(kind, payload)), 1,
             Len(compressZlib(Framing(kind, payload))) - 1),
      <<>>,
      compressZlib(kind \o <<SP>> \o to_string(Len(payload))),
      compressZlib(Framing(kind, payload)) }

InitCrash ==
    /\ aux \in {[phase |-> "crash", kind |-> k, payload |-> p, wrong |-> w] :
                  k \in StoreKinds, p \in StorePayloads,
                  w \in UNION {WrongFiles(k2, p2) : k2 \in StoreKinds,
                                                    p2 \in StorePayloads}}
    /\ aux.wrong \in WrongFiles(aux.kind, aux.payload)
    /\ shaTab = <<Framing(aux.kind, aux.payload)>>
    /\ objects = [p \in {ObjectPath(computeSha1(shaTab, shaTab[1]))} |-> aux.wrong]
    /\ refFiles = [p \in {STR_HEAD} |-> STR_ref_sp \o STR_main \o <<LF>>]
    /\ worktree = <<>>
    /\ last = [cmd |-> "init", input |-> <<>>, exit |-> EXIT_SUCCESS, out |-> <<>>,
               fsok |-> TRUE]
    /\ printed = {}
    /\ ncmds = 0
    /\ cl = IdleClone

\* readObject(sha): exit is EXIT_FAILURE if it throws; out is the content it
\* returns.
StoreRead(sha) ==
    /\ ncmds < MaxCmds
    /\ \E r \in {readObject(objects, sha)} :
          last' = [cmd |-> "Read", input |-> sha,
                   exit |-> IF r.ok THEN EXIT_SUCCESS ELSE EXIT_FAILURE,
                   out |-> r.content, fsok |-> TRUE]
    /\ ncmds' = ncmds + 1
    /\ UNCHANGED <<shaTab, objects, refFiles, worktree, printed, cl, aux>>

NextCrash ==
    \/ \E fsok \in BOOLEAN : StoreWrite(aux.kind, aux.payload, fsok)
    \/ \E fsok \in BOOLEAN : StoreWriteRaw(aux.kind, aux.payload, fsok)
    \/ \E sha \in {computeSha1(shaTab, shaTab[1]),
                   shaToHex(RawDigest(Len(shaTab) + 1))} : StoreRead(sha)

SpecCrash == InitCrash /\ [][NextCrash]_vars

(***************************************************************************)
(* The tree writer and the materializer on their own: writeTree of a       *)
(* directory, then checkoutTree of the digest it returned into an empty    *)
(* directory.                                                              *)
(***************************************************************************)
\* The most entries of the directory given to writeTree.
MaxEntries == 2

TreeEntryMenu ==
    { File(NAME_a, <<>>), File(NAME_a_dot, <<LF>>), File(NAME_high, <<NUL>>),
      File(NAME_a_b, <<104, 105, LF, NUL>>), Dir(NAME_d, <<>>),
      Dir(NAME_a, <<File(NAME_a, <<LF>>)>>), File(STR_dotgit, <<LF>>),
      Dir(NAME_e, <<File(STR_dotgit, <<NUL>>), File(NAME_a, <<>>)>>),
      Dir(STR_dotgit, <<File(NAME_a, <<>>)>>) }

\* The directories of at most n entries of the menu, no name twice, in
\* every order of iteration.
RECURSIVE DirsUpTo(_)
DirsUpTo(n) ==
    IF n = 0 THEN {<<>>}
    ELSE LET shorter == DirsUpTo(n - 1)
         IN  shorter
             \cup {Append(pair[1], pair[2]) :
                     pair \in {q \in shorter \X TreeEntryMenu :
                                 Len(q[1]) = n - 1 /\ ~HasEntry(q[1], q[2].name)}}

TreeDirs == DirsUpTo(MaxEntries)

InitTree ==
    /\ Fresh
    /\ aux \in {[phase |-> "dir", dir |-> d, fsok |-> f, sha |-> <<>>,
                 status |-> "ok"] : d \in TreeDirs, f \in BOOLEAN}

TreeWrite ==
    /\ aux.phase = "dir"
    /\ \E w \in {writeTree([tab |-> shaTab, objs |-> objects], aux.dir, aux.fsok)} :
          /\ shaTab' = w.tab
          /\ objects' = w.objs
          /\ aux' = [aux EXCEPT !.phase = "written", !.sha = w.sha]
    /\ UNCHANGED <<refFiles, worktree, last, printed, ncmds, cl>>

TreeMaterialize ==
    /\ aux.phase = "written"
    /\ \E r \in {checkoutTree(objects, aux.sha, <<>>)} :
          /\ worktree' = r.dir
          /\ aux' = [aux EXCEPT !.phase = "done", !.status = r.status]
    /\ UNCHANGED <<shaTab, objects, refFiles, last, printed, ncmds, cl>>

NextTree == TreeWrite \/ TreeMaterialize

SpecTree == InitTree /\ [][NextTree]_vars

(***************************************************************************)
(* applyDelta on its own.                                                  *)
(***************************************************************************)
\* The largest size a delta header declares in one byte.
MaxDeclared == 3

DeltaBases == {<<>>, <<97>>, <<97, 98>>, <<97, 98, 99>>}

\* The instructions after the header: nothing; inserts (the third cut
\* short); the reserved 0; copies by offset and size, of the whole base
\* (size 0), past the base, and with operand bytes missing.
DeltaBodies ==
    { <<>>, <<1, 120>>, <<2, 120, 121>>, <<2, 120>>, <<0>>, <<144, 1>>,
      <<145, 1, 1>>, <<128>>, <<144, 2, 1, 120>>, <<145, 3, 1>>, <<145, 4, 1>>,
      <<144>>, <<145>>, <<147, 1, 0, 1>> }

DeclaredSizes == (0..MaxDeclared) \cup {200}

Deltas ==
    {Varint(s) \o Varint(t) \o body :
        s \in DeclaredSizes, t \in DeclaredSizes, body \in DeltaBodies}
    \cup {<<>>, <<128>>}

\* "Hello World", and the delta copy(0, 5), insert " Git", copy(5, 6).
HelloBase == <<72, 101, 108, 108, 111, 32, 87, 111, 114, 108, 100>>
HelloDelta ==
    Varint(11) \o Varint(15)
        \o <<144, 5>> \o <<4, 32, 71, 105, 116>> \o <<145, 5, 6>>

\* A base of 260 bytes, and a delta whose copies take two bytes for the
\* offset (257) and two for the size (256).
LongBase == [i \in 1..260 |-> 97 + (i % 7)]
LongDelta ==
    Varint(260) \o Varint(258) \o <<147, 1, 1, 2>> \o <<176, 0, 1>>

DeltaExamples == {<<HelloBase, HelloDelta>>, <<LongBase, LongDelta>>}

InitDelta ==
    /\ Fresh
    /\ aux \in {[phase |-> "delta", base |-> b, delta |-> d, out |-> <<>>,
                 status |-> "ok"] : b \in DeltaBases, d \in Deltas}
              \cup {[phase |-> "delta", base |-> e[1], delta |-> e[2],
                     out |-> <<>>, status |-> "ok"] : e \in DeltaExamples}

DeltaApply ==
    /\ aux.phase = "delta"
    /\ \E r \in {applyDelta(aux.base, aux.delta)} :
          aux' = [aux EXCEPT !.phase = "applied", !.out = r.out,
                             !.status = r.status]
    /\ UNCHANGED <<shaTab, objects, refFiles, worktree, last, printed, ncmds, cl>>

NextDelta == DeltaApply

SpecDelta == InitDelta /\ [][NextDelta]_vars

(***************************************************************************)
(* parsePackfile on its own, on packs that hold a chain: a base, a delta   *)
(* of the base, and a delta of that delta, in every order of the records.  *)
(* perm[k] says which of them (1: the base, 2: the first delta, 3: the     *)
(* second) is the k-th record; kinds says how each delta names its base    *)
(* (an ofs-delta only when its base comes before it).  The sender has      *)
(* hashed the three objects.                                               *)
(***************************************************************************)
ChainPayloads == {<<>>, <<NUL>>, <<104, 105>>, <<49, 48, 48, 54, 52, 52, SP>>}

ChainTypes == {OBJ_COMMIT, OBJ_TREE, OBJ_BLOB}

Perms3 ==
    { <<1, 2, 3>>, <<1, 3, 2>>, <<2, 1, 3>>, <<2, 3, 1>>, <<3, 1, 2>>, <<3, 2, 1>> }

\* The place of object n in the order perm.
PlaceOf(perm, n) == CHOOSE k \in 1..Len(perm) : perm[k] = n

ChainInputs ==
    {[phase |-> "pack", type |-> t, payload |-> p, perm |-> perm, kinds |-> kinds,
      status |-> "ok", objs |-> {}] :
        t \in ChainTypes, p \in ChainPayloads,
        perm \in Perms3, kinds \in {"ref", "ofs"} \X {"ref", "ofs"}}

\* An ofs-delta can only point back.
ChainOk(in) ==
    /\ in.kinds[1] = "ofs" => PlaceOf(in.perm, 1) < PlaceOf(in.perm, 2)
    /\ in.kinds[2] = "ofs" => PlaceOf(in.perm, 2) < PlaceOf(in.perm, 3)

\* The three objects of the chain, hashed in this order.
Chain(tab, in) ==
    LET o1 == Hashed(tab, in.type, in.payload)
        o2 == Hashed(o1.tab, in.type, in.payload \o <<121>>)
        o3 == Hashed(o2.tab, in.type, in.payload \o <<121, 122>>)
    IN  <<o1, o2, o3>>

ChainRecord(chain, in, n) ==
    IF n = 1 THEN BaseRec(chain[1])
    ELSE IF in.kinds[n - 1] = "ref" THEN RefRec(chain[n], chain[n - 1])
    ELSE OfsRec(chain[n], chain[n - 1], PlaceOf(in.perm, n - 1))

ChainPack(tab, in) ==
    BuildPack([k \in 1..3 |-> ChainRecord(Chain(tab, in), in, in.perm[k])])

\* The (digest, kind, payload) of every object of a parse.
ObjectSet(objs) == {<<sha, typeToString(objs[sha].type), objs[sha].data>> : sha \in DOMAIN objs}

InitPack ==
    /\ objects = EmptyFiles
    /\ refFiles = [p \in {STR_HEAD} |-> STR_ref_sp \o STR_main \o <<LF>>]
    /\ worktree = <<>>
    /\ last = [cmd |-> "init", input |-> <<>>, exit |-> EXIT_SUCCESS, out |-> <<>>,
               fsok |-> TRUE]
    /\ printed = {}
    /\ ncmds = 0
    /\ cl = IdleClone
    /\ aux \in {in \in ChainInputs : ChainOk(in)}
    /\ shaTab = Chain(<<>>, aux)[3].tab

PackResolve ==
    /\ aux.phase = "pack"
    /\ \E r \in {parsePackfile(shaTab, ChainPack(shaTab, aux))} :
          /\ shaTab' = r.tab
          /\ aux' = [aux EXCEPT !.phase = "resolved", !.status = r.status,
                                !.objs = ObjectSet(r.objects)]
    /\ UNCHANGED <<objects, refFiles, worktree, last, printed, ncmds, cl>>

NextPack == PackResolve

SpecPack == InitPack /\ [][NextPack]_vars

(***************************************************************************)
(* The delta resolver of parsePackfile, one statement at a time: the       *)
(* first pass, then the loop while (progress) with one step for each       *)
(* iteration of its for loop.  The packs are the chains of three objects   *)
(* in every order, plain, thin (the first object is itself a delta against *)
(* an object that is not in the pack), bad (the delta of the third object  *)
(* copies from beyond the end of its base), zero or far (the third object  *)
(* is an ofs-delta whose distance is 0, or larger than its own offset).    *)
(***************************************************************************)
ResolvePayloads == {<<>>, <<104, 105>>}

\* The kinds of the first object of a chain: the three the client stores,
\* and the code 5 that no kind has.
ResolveTypes == {OBJ_COMMIT, OBJ_BLOB, 5}

ResolveInputs ==
    {[type |-> t, payload |-> p, perm |-> perm, kinds |-> kinds, variant |-> v] :
        t \in ResolveTypes, p \in ResolvePayloads, perm \in Perms3,
        kinds \in {"ref", "ofs"} \X {"ref", "ofs"},
        v \in {"plain", "thin", "bad", "zero", "far"}}


ResolveRecord(chain, in, n) ==
    IF n = 1 /\ in.variant = "thin"
      THEN RefRec(chain[1], Hashed(chain[3].tab, in.type, SrvBlobX))
    ELSE IF n = 3 /\ in.variant = "bad"
      THEN [ChainRecord(chain, in, n) EXCEPT !.data = BadDelta(chain[2].payload)]
    ELSE IF n = 3 /\ in.variant \in {"zero", "far"}
      \* 200 is larger than the offset of any record of these packs.
      THEN [OfsRec(chain[3], chain[2], IF in.variant = "zero" THEN 0 ELSE 200)
              EXCEPT !.kind = "ofsraw"]
    ELSE ChainRecord(chain, in, n)

ResolvePack(tab, in) ==
    BuildPack([k \in 1..3 |-> ResolveRecord(Chain(tab, in), in, in.perm[k])])

\* The locals of parsePackfile: tempObjs, the two maps still empty, and
\* "bool progress = true".
ResolveStart(tab, tempObjs) ==
    [tab |-> tab, temp |-> tempObjs, objects |-> EmptyMap,
     offsetToSha |-> EmptyMap, progress |-> TRUE, status |-> "ok"]

\* The records that have no digest yet.
Unresolved(st) == {k \in 1..Len(st.temp) : st.temp[k].sha = <<>>}

InitResolve ==
    /\ objects = EmptyFiles
    /\ refFiles = [p \in {STR_HEAD} |-> STR_ref_sp \o STR_main \o <<LF>>]
    /\ worktree = <<>>
    /\ last = [cmd |-> "init", input |-> <<>>, exit |-> EXIT_SUCCESS, out |-> <<>>,
               fsok |-> TRUE]
    /\ printed = {}
    /\ ncmds = 0
    /\ cl = IdleClone
    /\ \E in \in {x \in ResolveInputs : ChainOk(x)} :
          /\ shaTab = Chain(<<>>, in)[3].tab
          /\ aux = [phase |-> "resolve", in |-> in, pc |-> "parse", i |-> 1,
                    before |-> NPOS, st |-> ResolveStart(shaTab, <<>>)]

\* The loop that reads the records of the pack into tempObjs.
ResolveParse ==
    /\ aux.pc = "parse"
    /\ \E pack \in {ResolvePack(shaTab, aux.in)} :
          aux' = [aux EXCEPT !.pc = "first",
                             !.st.temp = ParseRecords(pack, 12, 0, 3, <<>>).tempObjs]
    /\ UNCHANGED <<shaTab, objects, refFiles, worktree, last, printed, ncmds, cl>>

\* "First pass: non-delta objects".
ResolveFirst ==
    /\ aux.pc = "first"
    /\ aux' = [aux EXCEPT !.pc = "while", !.st = FirstPass(aux.st, 1)]
    /\ shaTab' = aux'.st.tab
    /\ UNCHANGED <<objects, refFiles, worktree, last, printed, ncmds, cl>>

\* A loop that starts a new pass whatever the last one did.
ResolveWhileAlways ==
    /\ aux.pc = "while"
    /\ aux' = [aux EXCEPT !.pc = "for", !.i = 1,
                          !.before = Cardinality(Unresolved(aux.st)),
                          !.st.progress = FALSE]
    /\ UNCHANGED <<shaTab, objects, refFiles, worktree, last, printed, ncmds, cl>>

\* while (progress) { progress = false; ...: a new pass starts, or the
\* function returns.  before is the number of records without a digest at
\* the start of the pass.
ResolveWhile ==
    /\ aux.pc = "while"
    /\ aux' = IF aux.st.progress
                THEN [aux EXCEPT !.pc = IF Len(aux.st.temp) = 0 THEN "while" ELSE "for",
                                 !.i = 1,
                                 !.before = Cardinality(Unresolved(aux.st)),
                                 !.st.progress = FALSE]
                ELSE [aux EXCEPT !.pc = "return"]
    /\ UNCHANGED <<shaTab, objects, refFiles, worktree, last, printed, ncmds, cl>>

\* One iteration of for (auto& obj : tempObjs); an exception of applyDelta
\* leaves the function.
ResolveVisit ==
    /\ aux.pc = "for"
    /\ \E r \in {DeltaVisit(aux.st, aux.i)} :
          /\ aux' = [aux EXCEPT !.st = r,
                                !.i = IF r.status = "ok" THEN aux.i + 1 ELSE aux.i,
                                !.pc = IF r.status # "ok" THEN "threw"
                                       ELSE IF aux.i = Len(aux.st.temp) THEN "while"
                                       ELSE "for"]
          /\ shaTab' = r.tab
    /\ UNCHANGED <<objects, refFiles, worktree, last, printed, ncmds, cl>>

NextResolve == ResolveParse \/ ResolveFirst \/ ResolveWhile \/ ResolveVisit

SpecResolve == InitResolve /\ [][NextResolve]_vars

\* Once the records are read, the statements of the resolver run one after
\* the other until the function is left.
SpecResolveFair ==
    SpecResolve /\ WF_vars(ResolveFirst \/ ResolveWhile \/ ResolveVisit)

(***************************************************************************)
(* Reference discovery on its own: the advertisement is a list of at most  *)
(* MaxLines entries, HEAD, the two branches the client knows and a branch  *)
(* it does not know, each with its own digest, in every order, the first   *)
(* two with or without capabilities after a NUL; after the entries the     *)
(* remote may send one of the length prefixes 0001, 0002 and 0003.         *)
(***************************************************************************)
MaxLines == 3

STR_master2 == STR_master \o <<50>>

RefEntries ==
    {[ref |-> r, caps |-> c] :
        r \in {"HEAD", "master"}, c \in BOOLEAN}
    \cup {[ref |-> r, caps |-> FALSE] : r \in {"main", "other"}}

EntryRef(e) ==
    CASE e.ref = "HEAD" -> STR_HEAD
      [] e.ref = "master" -> STR_master
      [] e.ref = "main" -> STR_main
      [] OTHER -> STR_master2

\* Every reference points to a commit of its own.
EntryDigest(e) ==
    shaToHex(RawDigest(CASE e.ref = "HEAD" -> 1
                         [] e.ref = "master" -> 2
                         [] e.ref = "main" -> 3
                         [] OTHER -> 4))

RECURSIVE RefLines(_)
RefLines(entries) ==
    IF entries = <<>> THEN <<>>
    ELSE RefLine(EntryDigest(entries[1]), EntryRef(entries[1]), entries[1].caps)
         \o RefLines(Tail(entries))

\* The body of the answer to GET .../info/refs?service=git-upload-pack.
\* reserved is 0, or the length (1, 2 or 3) of a prefix "000<reserved>" that
\* the remote puts after its last entry.
RefsResponse(entries, reserved) ==
    createPktLine(STR_service \o STR_upload_pack \o <<LF>>) \o STR_0000
    \o RefLines(entries)
    \o (IF reserved = 0 THEN <<>> ELSE <<48, 48, 48, 48 + reserved>>)
    \o STR_0000

SeqsUpTo(S, n) == UNION {[1..k -> S] : k \in 0..n}

InitRefs ==
    /\ shaTab = <<>>
    /\ objects = EmptyFiles
    /\ refFiles = [p \in {STR_HEAD} |-> STR_ref_sp \o STR_main \o <<LF>>]
    /\ worktree = <<>>
    /\ last = [cmd |-> "init", input |-> <<>>, exit |-> EXIT_SUCCESS, out |-> <<>>,
               fsok |-> TRUE]
    /\ printed = {}
    /\ ncmds = 0
    /\ cl = IdleClone
    /\ \E entries \in SeqsUpTo(RefEntries, MaxLines), reserved \in 0..3 :
          aux = [phase |-> "advertised", entries |-> entries, reserved |-> reserved,
                 parse |-> "none", status |-> "ok", headSha |-> <<>>,
                 headRef |-> <<>>]

\* parsePktLines, the loop over the lines, and the throw when no digest was
\* found.
RefsDiscover ==
    /\ aux.phase = "advertised"
    /\ \E parsed \in {parsePktLines(RefsResponse(aux.entries, aux.reserved))} :
       \E refs \in {DiscoverRefs(parsed.lines, <<>>, <<>>)} :
          aux' = [aux EXCEPT !.phase = "discovered",
                             !.parse = parsed.status,
                             !.status = IF parsed.status # "ok" THEN parsed.status
                                        ELSE IF refs.headSha = <<>> THEN "throw"
                                        ELSE "ok",
                             !.headSha = refs.headSha,
                             !.headRef = refs.headRef]
    /\ UNCHANGED <<shaTab, objects, refFiles, worktree, last, printed, ncmds, cl>>

\* Write HEAD, after a discovery that ended well: HEAD is the digest itself
\* when no branch was found, and otherwise names the branch, whose ref file
\* gets the digest.  (The request and the pack, which stand between the two
\* steps in cloneRepository, use neither headRef nor the files written here.)
RefsHead ==
    /\ aux.phase = "discovered"
    /\ aux.status = "ok"
    /\ refFiles' =
          IF aux.headRef = <<>>
            THEN WriteFile(refFiles, STR_HEAD, aux.headSha \o <<LF>>)
            ELSE WriteFile(WriteFile(refFiles, STR_HEAD,
                                     STR_ref_sp \o aux.headRef \o <<LF>>),
                           aux.headRef, aux.headSha \o <<LF>>)
    /\ aux' = [aux EXCEPT !.phase = "written"]
    /\ UNCHANGED <<shaTab, objects, worktree, last, printed, ncmds, cl>>

NextRefs == RefsDiscover \/ RefsHead

SpecRefs == InitRefs /\ [][NextRefs]_vars

(***************************************************************************)
(* ls-tree.  The result is [status, exit, out]: out is what was printed;   *)
(* status is "ub" when the digest of an entry was read past the end of the *)
(* payload, decompressed[i] with i > size().                               *)
(***************************************************************************)
\* while (mode.length() < 6) mode = "0" + mode;
RECURSIVE PadMode(_)
PadMode(mode) == IF Len(mode) < 6 THEN PadMode(<<48>> \o mode) ELSE mode

\* The loop over the entries, from pos on.  An entry without its space or
\* without its NUL ends the loop (break).
RECURSIVE LsTreeLoop(_, _, _, _)
LsTreeLoop(decompressed, pos, nameOnly, out) ==
    IF ~(pos < Len(decompressed)) THEN [status |-> "ok", out |-> out]
    ELSE
      LET spacePos == Find(decompressed, SP, pos)
          mode == Substr(decompressed, pos, spacePos - pos)
          nameNullPos == Find(decompressed, NUL, spacePos + 1)
          name == Substr(decompressed, spacePos + 1, nameNullPos - spacePos - 1)
          type == IF mode = STR_40000 THEN STR_tree ELSE STR_blob
          line == PadMode(mode) \o <<SP>> \o type \o <<SP>>
                  \o shaToHex(RawAt(decompressed, nameNullPos + 1))
                  \o <<9>> \o name \o <<LF>>
      IN  IF spacePos = NPOS THEN [status |-> "ok", out |-> out]
          ELSE IF nameNullPos = NPOS THEN [status |-> "ok", out |-> out]
          ELSE IF nameOnly
            THEN LsTreeLoop(decompressed, nameNullPos + 1 + SHA_DIGEST_LENGTH,
                            nameOnly, out \o name \o <<LF>>)
          ELSE IF nameNullPos + SHA_DIGEST_LENGTH > Len(decompressed)
            THEN [status |-> "ub", out |-> out]
          ELSE LsTreeLoop(decompressed, nameNullPos + 1 + SHA_DIGEST_LENGTH,
                          nameOnly, out \o line)

lsTree(objs, treeSha, nameOnly) ==
    LET Failure == [status |-> "ok", exit |-> EXIT_FAILURE, out |-> <<>>]
        Listed(r) == [status |-> r.status, exit |-> EXIT_SUCCESS, out |-> r.out]
        Entries(decompressed, nullPos) ==
            IF nullPos = NPOS THEN Failure
            ELSE Listed(LsTreeLoop(decompressed, nullPos + 1, nameOnly, <<>>))
        Inflated(z) == IF ~z.ok THEN Failure ELSE Entries(z.out, Find(z.out, NUL, 0))
    IN  IF Len(treeSha) # 2 * SHA_DIGEST_LENGTH THEN Failure
        ELSE IF ObjectPath(treeSha) \notin DOMAIN objs THEN Failure
        ELSE Inflated(decompressZlib(objs[ObjectPath(treeSha)]))

(***************************************************************************)
(* The two decoders of a tree, ls-tree and checkoutTree, on a store that   *)
(* holds a blob and a tree whose payload is the first cut bytes of two     *)
(* entries for that blob: every payload that ends between two entries, and *)
(* every one that ends inside an entry.                                    *)
(***************************************************************************)
LsBlob == Hashed(<<>>, OBJ_BLOB, SrvBlob1)

LsEntries ==
    TreeContent(<<TreeLine(STR_100644, NAME_a, LsBlob.sha),
                  TreeLine(STR_100644, NAME_d, LsBlob.sha)>>)

InitLs ==
    /\ refFiles = [p \in {STR_HEAD} |-> STR_ref_sp \o STR_main \o <<LF>>]
    /\ worktree = <<>>
    /\ last = [cmd |-> "init", input |-> <<>>, exit |-> EXIT_SUCCESS, out |-> <<>>,
               fsok |-> TRUE]
    /\ printed = {}
    /\ ncmds = 0
    /\ cl = IdleClone
    /\ \E cut \in 0..Len(LsEntries) :
       \E w \in {writeObject(writeObject([tab |-> <<>>, objs |-> EmptyFiles],
                                         Framing(STR_blob, SrvBlob1), TRUE),
                             Framing(STR_tree, SubSeq(LsEntries, 1, cut)), TRUE)} :
          /\ aux = [phase |-> "tree", cut |-> cut, sha |-> w.sha, status |-> "none"]
          /\ shaTab = w.tab
          /\ objects = w.objs

\* ls-tree [--name-only] <tree_sha>
LsTree(nameOnly) ==
    /\ aux.phase = "tree"
    /\ \E r \in {lsTree(objects, aux.sha, nameOnly)} :
       \E exit \in (IF r.status = "ub" THEN {EXIT_SUCCESS, NO_EXIT} ELSE {r.exit}) :
          /\ last' = [cmd |-> "ls-tree", input |-> aux.sha, exit |-> exit,
                      out |-> r.out, fsok |-> TRUE]
          /\ aux' = [aux EXCEPT !.phase = "listed", !.status = r.status]
    /\ UNCHANGED <<shaTab, objects, refFiles, worktree, printed, ncmds, cl>>

\* checkoutTree of the same tree into an empty directory.
LsCheckout ==
    /\ aux.phase = "listed"
    /\ \E r \in {checkoutTree(objects, aux.sha, <<>>)} :
          /\ worktree' = r.dir
          /\ aux' = [aux EXCEPT !.phase = "checkedout", !.status = r.status]
    /\ UNCHANGED <<shaTab, objects, refFiles, last, printed, ncmds, cl>>

NextLs == (\E nameOnly \in BOOLEAN : LsTree(nameOnly)) \/ LsCheckout

SpecLs == InitLs /\ [][NextLs]_vars

(***************************************************************************)
(* Properties.                                                             *)
(***************************************************************************)
Range(s) == {s[i] : i \in 1..Len(s)}

\* The hex digest of a byte string that has been hashed; <<>> for one that
\* has not.
DigestOf(data) == IF data \in Range(shaTab) THEN computeSha1(shaTab, data) ELSE <<>>

\* The digest an object path stands for: XX followed by YYY...
PathDigest(path) == path[1] \o path[2]

\* bytes is "<kind> <size>\0<payload>": a kind with no space and no NUL in
\* it, and the decimal length of what follows the first NUL.
IsFraming(bytes) ==
    LET nullPos == Find(bytes, NUL, 0)
        spacePos == Find(bytes, SP, 0)
    IN  /\ nullPos # NPOS
        /\ spacePos # NPOS
        /\ 0 < spacePos
        /\ spacePos < nullPos
        /\ bytes = Framing(Substr(bytes, 0, spacePos), SubstrFrom(bytes, nullPos + 1))

\* The file at path inflates to a framing whose digest is the path.
Consistent(objs, path) ==
    LET z == decompressZlib(objs[path])
    IN  /\ z.ok
        /\ IsFraming(z.out)
        /\ DigestOf(z.out) = PathDigest(path)

\* C1.  Digest consistency: whatever hash-object, write-tree, commit-tree
\* and clone have done so far, every file of the object store inflates to a
\* framing "<kind> <size>\0<payload>" whose SHA-1 digest, in hex, is the
\* directory name followed by the file name.
C1_DigestConsistency == \A path \in DOMAIN objects : Consistent(objects, path)

\* A clone has unpacked a pack into a store that held an object of a local
\* command, and every step of it has written its objects.
C1_Witness ==
    /\ cl.pc = "head"
    /\ cl.fsok
    /\ \E r \in printed : r.fsok /\ ObjectPath(r.sha) \in DOMAIN objects
    /\ Cardinality(DOMAIN objects) >= 5

\* C2.  Blob round-trip: when cat-file -p is given a digest that
\* hash-object -w printed for a file holding B, it exits with 0 and writes
\* exactly B.
C2_BlobRoundTrip ==
    \A r \in printed :
        (last.cmd = "cat-file" /\ r.cmd = "hash-object" /\ r.sha = last.input)
            => (last.exit = EXIT_SUCCESS /\ last.out = r.input)

\* cat-file has printed the blob of the file "hi\n\0".
C2_Witness ==
    /\ last.cmd = "cat-file"
    /\ last.out = <<104, 105, LF, NUL>>
    /\ \E r \in printed : r.cmd = "hash-object" /\ r.sha = last.input

\* The object named d is in the store, and its file is consistent.
Stored(objs, d) ==
    /\ Len(d) = 2 * SHA_DIGEST_LENGTH
    /\ ObjectPath(d) \in DOMAIN objs
    /\ Consistent(objs, ObjectPath(d))

\* The kind and the payload of a stored object.
KindOf(objs, d) ==
    LET framing == decompressZlib(objs[ObjectPath(d)]).out
    IN  Substr(framing, 0, Find(framing, SP, 0))

PayloadOf(objs, d) ==
    LET framing == decompressZlib(objs[ObjectPath(d)]).out
    IN  SubstrFrom(framing, Find(framing, NUL, 0) + 1)

\* The entries "mode SP name NUL digest20" of a tree payload from pos on, as
\* [mode, name, sha] with the digest in hex.  An entry that is cut short
\* ends the sequence with an entry whose digest is empty.
RECURSIVE TreeEntries(_, _)
TreeEntries(content, pos) ==
    IF pos >= Len(content) THEN <<>>
    ELSE LET spacePos == Find(content, SP, pos)
             nullPos == IF spacePos = NPOS THEN NPOS
                        ELSE Find(content, NUL, spacePos + 1)
         IN  IF nullPos = NPOS \/ nullPos + SHA_DIGEST_LENGTH >= Len(content)
               THEN <<[mode |-> <<>>, name |-> <<>>, sha |-> <<>>]>>
               ELSE <<[mode |-> Substr(content, pos, spacePos - pos),
                       name |-> Substr(content, spacePos + 1, nullPos - spacePos - 1),
                       sha |-> shaToHex(RawAt(content, nullPos + 1))]>>
                    \o TreeEntries(content, nullPos + 1 + SHA_DIGEST_LENGTH)

\* The tree d, its sub-trees and its blobs are stored.
RECURSIVE TreeClosed(_, _)
TreeClosed(objs, d) ==
    /\ Stored(objs, d)
    /\ KindOf(objs, d) = STR_tree
    /\ \A e \in Range(TreeEntries(PayloadOf(objs, d), 0)) :
          IF e.mode = STR_40000 THEN TreeClosed(objs, e.sha) ELSE Stored(objs, e.sha)

\* The commit d and everything under its tree are stored.
CommitClosed(objs, d) ==
    /\ Stored(objs, d)
    /\ KindOf(objs, d) = STR_commit
    /\ Substr(PayloadOf(objs, d), 0, Len(STR_tree_sp)) = STR_tree_sp
    /\ TreeClosed(objs, Substr(PayloadOf(objs, d), Len(STR_tree_sp),
                               2 * SHA_DIGEST_LENGTH))

StripLF(s) == IF s # <<>> /\ s[Len(s)] = LF THEN SubSeq(s, 1, Len(s) - 1) ELSE s

\* The digest HEAD stands for: the one in the file of the ref it names
\* ("ref: <refname>"), or the one it holds; <<>> if the ref has no file.
HeadDigest(files) ==
    LET head == files[STR_HEAD]
        ref == StripLF(SubstrFrom(head, Len(STR_ref_sp)))
    IN  IF Len(head) >= Len(STR_ref_sp) /\ Substr(head, 0, Len(STR_ref_sp)) = STR_ref_sp
          THEN IF ref \in DOMAIN files THEN StripLF(files[ref]) ELSE <<>>
          ELSE StripLF(head)

\* C5.  Clone fidelity: once clone has exited with 0, the commit HEAD
\* stands for, its tree, the sub-trees and the blobs under it are all in
\* the store, each in a file that inflates to a framing whose digest is the
\* name of the object.
C5_CloneFidelity ==
    (last.cmd = "clone" /\ last.exit = EXIT_SUCCESS /\ cl.pc = "idle")
        => CommitClosed(objects, HeadDigest(refFiles))

\* A clone of a pack whose deltas come before their bases has succeeded.
C5_Witness ==
    /\ last.cmd = "clone"
    /\ last.exit = EXIT_SUCCESS
    /\ cl.pc = "idle"
    /\ cl.scen.pack = "refdelta"
    /\ Len(worktree) = 2

\* C6.  HEAD validity: when a clone that has written HEAD has ended, by a
\* return or by an exception, HEAD is "ref: <refname>" and the file of the
\* ref holds a digest that is in the store, or HEAD holds a digest that is in
\* the store.
C6_HeadValidity ==
    (last.cmd = "clone" /\ last.exit # NO_EXIT /\ cl.pc = "idle" /\ cl.headOpen)
        => /\ Len(HeadDigest(refFiles)) = 2 * SHA_DIGEST_LENGTH
           /\ ObjectPath(HeadDigest(refFiles)) \in DOMAIN objects

\* C10.  Exit status: a hash-object, write-tree or commit-tree that exits
\* with 0 has stored the object whose digest it printed.
C10_ExitStatus ==
    (last.cmd \in {"hash-object", "write-tree", "commit-tree"}
     /\ last.exit = EXIT_SUCCESS)
        => ObjectPath(StripLF(last.out)) \in DOMAIN objects

\* C7.  Idempotent writes: a Write or a WriteRaw of a framing that has been
\* written before, and whose file is in the store, leaves every file of the
\* store as it was and gives the digest that the earlier writes gave.
C7_IdempotentWrites ==
    [][(/\ ncmds' = ncmds + 1
        /\ last'.cmd \in {"Write", "WriteRaw"}
        /\ ObjectPath(last'.out) \in DOMAIN objects
        /\ \E r \in printed : r.input = last'.input)
          => /\ objects' = objects
             /\ \A r \in printed : r.input = last'.input => r.sha = last'.out]_vars

\* A framing that Write stored has been written again, by WriteRaw.
C7_Witness ==
    /\ ncmds = 2
    /\ last.cmd = "WriteRaw"
    /\ \E r \in printed : r.cmd = "Write" /\ r.input = last.input /\ r.fsok
    /\ ObjectPath(last.out) \in DOMAIN objects

\* Some entry of the directory, at any depth, is called ".git".
RECURSIVE HasDotGit(_)
HasDotGit(dir) ==
    \E i \in 1..Len(dir) :
        \/ dir[i].name = STR_dotgit
        \/ dir[i].kind = "dir" /\ HasDotGit(dir[i].value)

\* Two directories hold the same names, with the same nesting and the same
\* bytes in the files, whatever the order of iteration.
RECURSIVE SameDir(_, _)
SameDir(a, b) ==
    /\ Len(a) = Len(b)
    /\ \A i \in 1..Len(a) : \E j \in 1..Len(b) :
          /\ a[i].name = b[j].name
          /\ a[i].kind = b[j].kind
          /\ IF a[i].kind = "dir" THEN SameDir(a[i].value, b[j].value)
                                  ELSE a[i].value = b[j].value

\* C3.  Tree round-trip: for a directory of regular files and
\* sub-directories none of which is called ".git", whose object files could
\* all be written, materializing the tree that writeTree returned into an
\* empty directory ends well and gives a directory with the same names, the
\* same nesting and the same file bytes.
C3_TreeRoundTrip ==
    (aux.phase = "done" /\ aux.fsok /\ ~HasDotGit(aux.dir))
        => (aux.status = "ok" /\ SameDir(worktree, aux.dir))

\* C3 as the specification states it, for every directory.
C3_TreeRoundTripAnyName ==
    (aux.phase = "done" /\ aux.fsok)
        => (aux.status = "ok" /\ SameDir(worktree, aux.dir))

\* A directory with a file and a sub-directory that holds a file has made the
\* round trip.
C3_Witness ==
    /\ aux.phase = "done"
    /\ aux.fsok
    /\ ~HasDotGit(aux.dir)
    /\ Len(aux.dir) = 2
    /\ \E i \in 1..2 : aux.dir[i].kind = "dir" /\ aux.dir[i].value # <<>>
    /\ \E i \in 1..2 : aux.dir[i].kind = "file"
    /\ Len(worktree) = 2

\* a comes before b, the bytes compared one by one as numbers 0..255, a
\* prefix before what it is a prefix of.
BytesLess(a, b) ==
    \E k \in 1..Len(b) :
        /\ \A j \in 1..(k - 1) : j <= Len(a) /\ a[j] = b[j]
        /\ (k > Len(a) \/ a[k] < b[k])

\* The names of the entries of the stored tree at path, in their order.
TreeNames(objs, path) ==
    LET entries == TreeEntries(PayloadOf(objs, PathDigest(path)), 0)
    IN  [i \in 1..Len(entries) |-> entries[i].name]

\* C4.  Entry ordering: in the payload of every tree that writeTree has
\* stored, each entry's name comes byte-wise strictly before the name of the
\* entry after it, and no name is there twice.
C4_EntryOrdering ==
    \A path \in DOMAIN objects :
        KindOf(objects, PathDigest(path)) = STR_tree
            => /\ \A i \in 1..(Len(TreeNames(objects, path)) - 1) :
                     BytesLess(TreeNames(objects, path)[i],
                               TreeNames(objects, path)[i + 1])
               /\ \A i, j \in 1..Len(TreeNames(objects, path)) :
                     TreeNames(objects, path)[i] = TreeNames(objects, path)[j]
                         => i = j

\* The tree of a directory that lists a name with a byte above 127 before
\* the name "a" is stored, with its two entries.
C4_Witness ==
    /\ aux.phase = "written"
    /\ aux.fsok
    /\ Len(aux.dir) = 2
    /\ aux.dir[1].name = NAME_high
    /\ aux.dir[2].name = NAME_a
    /\ ObjectPath(aux.sha) \in DOMAIN objects
    /\ TreeNames(objects, ObjectPath(aux.sha)) = <<NAME_a, NAME_high>>

\* C8.  Delta correctness: when the header of the delta declares the
\* length of the base as its source size, applyDelta ends well and gives
\* exactly as many bytes as the header declares for the target.
C8_DeltaCorrectness ==
    (aux.phase = "applied" /\ DeltaHeader(aux.delta).srcSize = Len(aux.base))
        => /\ aux.status = "ok"
           /\ Len(aux.out) = DeltaHeader(aux.delta).targetSize

\* The three objects of the chain, as (digest, kind, payload).
ChainObjects(in) ==
    {<<o.sha, typeToString(o.type), o.payload>> : o \in Range(Chain(shaTab, in))}

\* The pack of the same chain with the base first and each delta after its
\* base.
BaseFirst(in) == [in EXCEPT !.perm = <<1, 2, 3>>, !.kinds = <<"ref", "ref">>]

\* C9.  Order independence of delta chains: whatever the order of the three
\* records of a chain delta -> delta -> base in the pack, the resolver ends
\* well with the (digest, kind, payload) of the three objects of the chain,
\* the same set it produces for the pack that has the base first.
C9_OrderIndependence ==
    aux.phase = "resolved"
        => /\ aux.status = "ok"
           /\ aux.objs = ChainObjects(aux)
           /\ aux.objs = ObjectSet(parsePackfile(shaTab,
                                                 ChainPack(shaTab, BaseFirst(aux))).objects)

\* A pack with the second delta first and the base last has been resolved
\* into three objects.
C9_Witness ==
    /\ aux.phase = "resolved"
    /\ aux.perm = <<3, 2, 1>>
    /\ Cardinality(aux.objs) = 3

\* C11.  Write on a path that exists: writeObject leaves every other file
\* as it was, and the file of the object holds the deflated framing if the
\* stream opened, the bytes it had if it did not.  The file keeps its bytes
\* only when they were the deflated framing already.
C11_WriteOnExistingPath ==
    [][(/\ ncmds' = ncmds + 1
        /\ last'.cmd = "Write"
        /\ ObjectPath(last'.out) \in DOMAIN objects)
          => /\ DOMAIN objects' = DOMAIN objects
             /\ \A p \in DOMAIN objects :
                   objects'[p] = IF p # ObjectPath(last'.out) THEN objects[p]
                                 ELSE IF last'.fsok THEN compressZlib(last'.input)
                                 ELSE objects[p]]_vars

\* C11 as the specification states it: after a Write on a path that
\* exists, the file holds the bytes it had before.
C11_WriteIsNoOp ==
    (aux.phase = "crash" /\ ncmds = 1 /\ last.cmd = "Write")
        => objects[ObjectPath(last.out)] = aux.wrong

\* A Write has replaced a file that was cut short by the deflated framing.
C11_Witness ==
    /\ aux.phase = "crash"
    /\ ncmds = 1
    /\ last.cmd = "Write"
    /\ last.fsok
    /\ aux.wrong # compressZlib(last.input)
    /\ aux.wrong # <<>>
    /\ objects[ObjectPath(last.out)] = compressZlib(last.input)

\* C14.  Recovery from a partial write: after a Write or a WriteRaw of an
\* object whose file a run that went wrong had left, with the file open for
\* writing, the file holds the deflated framing.
C14_Recovery ==
    (aux.phase = "crash" /\ last.cmd \in {"Write", "WriteRaw"} /\ last.fsok)
        => objects[ObjectPath(last.out)] = compressZlib(last.input)

\* C15.  Read fails when there is no file at the path of the digest, and
\* when what the file inflates to has no NUL after the header: it returns
\* only for a file that is there and that inflates to a header, a NUL and a
\* payload.
C15_ReadFails ==
    (last.cmd = "Read" /\ last.exit = EXIT_SUCCESS)
        => /\ ObjectPath(last.input) \in DOMAIN objects
           /\ decompressZlib(objects[ObjectPath(last.input)]).ok
           /\ Find(decompressZlib(objects[ObjectPath(last.input)]).out, NUL, 0) # NPOS

\* The name an entry is compared by under the rule of C12: the name, with a
\* '/' after it for a directory.
SortKey(e) == IF e.mode = STR_40000 THEN e.name \o <<47>> ELSE e.name

\* C12.  Tree entry comparison rule: in every tree that writeTree has
\* stored, each entry comes before the next one when the names are compared
\* as unsigned bytes with a '/' after the name of a directory; a file "a."
\* comes before a directory "a".
C12_DirectorySlashRule ==
    \A path \in DOMAIN objects :
        KindOf(objects, PathDigest(path)) = STR_tree
            => \A i \in 1..(Len(TreeNames(objects, path)) - 1) :
                  BytesLess(SortKey(TreeEntries(PayloadOf(objects, PathDigest(path)),
                                                0)[i]),
                            SortKey(TreeEntries(PayloadOf(objects, PathDigest(path)),
                                                0)[i + 1]))

\* The records of a pack after the resolution loop has ended; a record
\* with no digest is a delta that was not resolved.
RecordsAfterResolution(tab, packData) ==
    ResolveDeltas(tab,
                  ParseRecords(packData, 12, 0,
                               PackByte(packData, 8) * 16777216
                               + PackByte(packData, 9) * 65536
                               + PackByte(packData, 10) * 256 + PackByte(packData, 11),
                               <<>>).tempObjs).temp

\* C13.  Unresolved deltas are an error: clone goes on to write HEAD only
\* if the resolution loop has given a digest to every record of the pack.
C13_UnresolvedDeltaFails ==
    cl.pc = "head"
        => \A i \in 1..Len(RecordsAfterResolution(shaTab, cl.packData)) :
              RecordsAfterResolution(shaTab, cl.packData)[i].sha # <<>>

\* C16.  Abort leaves no HEAD: a clone that has ended with an error has not
\* created the HEAD file of the destination (cl.headOpen: the stream of line
\* 600 was opened, which creates the file).
C16_AbortLeavesNoHead ==
    (last.cmd = "clone" /\ last.exit = EXIT_FAILURE /\ cl.pc = "idle")
        => ~cl.headOpen

\* The steps of clone, each with the one that may follow it: discovery
\* (from "idle"), the request, the pack, HEAD, the checkout; "exit" follows
\* the last step, or the step that failed.
StepOrder ==
    { <<"idle", "request">>, <<"request", "unpack">>, <<"unpack", "head">>,
      <<"head", "checkout">>, <<"checkout", "exit">>,
      <<"idle", "exit">>, <<"request", "exit">>, <<"unpack", "exit">>,
      <<"exit", "idle">> }

IsDelta(rec) == rec.type = OBJ_OFS_DELTA \/ rec.type = OBJ_REF_DELTA

\* The base of delta record k has a digest and is published under it: the
\* record at the offset an ofs-delta names, the record with the digest a
\* ref-delta names.
BasePublished(st, k) ==
    \E j \in 1..Len(st.temp) :
        /\ st.temp[j].sha # <<>>
        /\ st.temp[j].sha \in DOMAIN st.objects
        /\ IF st.temp[k].type = OBJ_OFS_DELTA
             THEN st.temp[j].offset = st.temp[k].baseOffset
             ELSE st.temp[j].sha = st.temp[k].baseSha

\* The delta records that get their digest in this step.
ResolvedNow ==
    {k \in 1..Len(aux.st.temp) :
        /\ IsDelta(aux.st.temp[k])
        /\ aux.st.temp[k].sha = <<>>
        /\ aux'.st.temp[k].sha # <<>>}

\* C18: base before delta.  In every step of the resolver, a delta record
\* (ofs-delta or ref-delta) that gets its digest in the step has a base that
\* was published with a digest before the step; and a step gives a digest
\* to one delta at most, so a delta whose base is a delta is resolved in a
\* later step than its base.
C18_BaseBeforeDelta ==
    [][ /\ \A k \in ResolvedNow : BasePublished(aux.st, k)
        /\ Cardinality(ResolvedNow) <= 1 ]_vars

\* A pack that lists the third object first and the first object last, each
\* a ref-delta of the one before: the second pass has just resolved the
\* first record, whose base the first pass had resolved.
C18_Witness ==
    /\ aux.phase = "resolve"
    /\ aux.pc = "for"
    /\ aux.i = 2
    /\ aux.in.perm = <<3, 2, 1>>
    /\ aux.in.variant = "plain"
    /\ Unresolved(aux.st) = {}
    /\ aux.in.kinds = <<"ref", "ref">>
    /\ aux.before = 1

\* The resolver has left its loop: it returned, or applyDelta threw.
ResolverLeft == aux.pc \in {"return", "threw"}

\* A step of the resolver, as the fixed point requires it:
\*  - at the test of the loop after a full pass, the loop is left exactly
\*    when the pass resolved nothing, so that a pass that is followed by
\*    another has resolved at least one record that had no digest;
\*  - the loop is left by return at that test only;
\*  - a record that has a digest keeps its digest, type and data.
PassRule ==
    /\ (aux.pc = "while" /\ aux.before # NPOS)
          => /\ aux'.pc = "return" <=> Cardinality(Unresolved(aux.st)) = aux.before
             /\ aux'.pc # "return" => Cardinality(Unresolved(aux.st)) < aux.before
    /\ (aux.pc # "return" /\ aux'.pc = "return") => aux.pc = "while"
    /\ (aux.pc = "for" /\ aux'.pc = "while") => aux.i = Len(aux.st.temp)
    /\ \A k \in 1..Len(aux.st.temp) :
          aux.st.temp[k].sha # <<>> => aux'.st.temp[k] = aux.st.temp[k]

\* C19: fixed-point termination.  For every list of records that has been
\* read from a pack the resolution loop is left; it returns after the first
\* full pass that resolves no delta, every other pass resolves at least one
\* delta that was unresolved, and a record that is resolved is never
\* resolved again.
C19_FixedPointTermination ==
    /\ (aux.pc = "first") ~> ResolverLeft
    /\ [][PassRule]_vars

\* The loop has returned after two passes that each resolved one delta and
\* a third that resolved none.
C19_Witness ==
    /\ aux.phase = "resolve"
    /\ aux.pc = "return"
    /\ aux.in.perm = <<3, 2, 1>>
    /\ aux.in.kinds = <<"ref", "ref">>
    /\ aux.in.variant = "plain"
    /\ Unresolved(aux.st) = {}
    /\ aux.before = 0

\* The digests the advertisement gives for the references of refs.
AdvertisedDigests(refs) ==
    {EntryDigest(aux.entries[k]) :
        k \in {j \in 1..Len(aux.entries) : aux.entries[j].ref \in refs}}

\* C20: reference discovery preference.  When the advertisement has a HEAD
\* entry, the digest chosen is that of HEAD, wherever the entry stands among
\* the branch entries; when it has none, the digest chosen is that of
\* refs/heads/master or refs/heads/main; when it has none of the three,
\* discovery fails.
C20_DiscoveryPreference ==
    (aux.phase = "discovered") =>
        IF AdvertisedDigests({"HEAD"}) # {}
          THEN aux.status = "ok" /\ aux.headSha \in AdvertisedDigests({"HEAD"})
        ELSE IF AdvertisedDigests({"master", "main"}) # {}
          THEN aux.status = "ok" /\ aux.headSha \in AdvertisedDigests({"master", "main"})
        ELSE aux.status = "throw"

\* HEAD is listed between master and main, and its digest was chosen.
C20_Witness ==
    /\ aux.phase = "discovered"
    /\ Len(aux.entries) = 3
    /\ aux.entries[1].ref = "master"
    /\ aux.entries[2].ref = "HEAD"
    /\ aux.entries[3].ref = "main"
    /\ aux.headSha = EntryDigest(aux.entries[2])

\* C21: a delta whose first instruction byte, the byte after the two size
\* headers, is 0 is rejected: applyDelta fails and gives no target.
C21_ZeroInstructionRejected ==
    (/\ aux.phase = "applied"
     /\ DeltaHeader(aux.delta).pos < Len(aux.delta)
     /\ aux.delta[DeltaHeader(aux.delta).pos + 1] = 0)
        => aux.status # "ok"

\* C22: a record whose kind code is 5 is rejected.  The parser does not
\* return when the pack holds such a record, and no record of that kind,
\* nor a delta that took the kind from its base, gets a digest and is
\* published.
C22_ReservedKindRejected ==
    (aux.phase = "resolve")
        => /\ \A k \in 1..Len(aux.st.temp) :
                 aux.st.temp[k].type = 5 => aux.st.temp[k].sha = <<>>
           /\ (aux.in.type = 5 /\ aux.in.variant # "thin") => aux.pc # "return"

\* C23: the base offset of every ofs-delta record, its own offset minus the
\* distance it encodes, is an offset of the pack (not negative, or wrapped)
\* that is strictly less than the offset of the record.
C23_OfsBaseOffset ==
    (aux.phase = "resolve" /\ aux.pc = "first")
        => \A k \in 1..Len(aux.st.temp) :
              aux.st.temp[k].type = OBJ_OFS_DELTA
                 => /\ 0 <= aux.st.temp[k].baseOffset
                    /\ aux.st.temp[k].baseOffset < aux.st.temp[k].offset

\* C24: streaming inflate has two outcomes, the inflated bytes with the
\* number of bytes consumed, or a failure; on a stream that the end of the
\* buffer cuts short it is the failure.  So the parse of a pack during clone
\* never stays in decompressZlibStream for ever.
C24_InflateOutcomes == ~(cl.pc = "exit" /\ cl.status = "hang")

\* The payload of the tree ends inside an entry.
PartialEntry == aux.cut \notin {0, Len(LsEntries) \div 2, Len(LsEntries)}

\* C25: a tree payload that ends in the middle of an entry is rejected by
\* both decoders: ls-tree exits with a failure and prints no entry, and
\* checkoutTree throws.
C25_PartialEntryRejected ==
    /\ (aux.phase = "listed" /\ PartialEntry)
          => (last.exit = EXIT_FAILURE /\ last.out = <<>>)
    /\ (aux.phase = "checkedout" /\ PartialEntry) => aux.status = "throw"

\* C26: the length prefixes 0001, 0002 and 0003 are rejected.  Parsing a
\* buffer that holds one of them fails; it does not return the lines that
\* stand before the prefix.
C26_ReservedLengthRejected ==
    (aux.phase = "discovered" /\ aux.reserved # 0) => aux.parse = "throw"

BitSet(cmd, k) == (cmd \div (2 ^ k)) % 2 = 1

BitsBelow(cmd, k) == Cardinality({j \in 0..(k - 1) : BitSet(cmd, j)})

OperandByte(delta, p, k) ==
    IF BitSet(delta[p + 1], k) THEN delta[p + 2 + BitsBelow(delta[p + 1], k)]
    ELSE 0

CopyOffset(delta, p) ==
    OperandByte(delta, p, 0) + 256 * OperandByte(delta, p, 1)
        + 65536 * OperandByte(delta, p, 2)
        + 16777216 * (OperandByte(delta, p, 3) % 128)

CopySize(delta, p) ==
    LET n == OperandByte(delta, p, 4) + 256 * OperandByte(delta, p, 5)
                 + 65536 * OperandByte(delta, p, 6)
    IN  IF n = 0 THEN 65536 ELSE n

InstructionLength(delta, p) ==
    IF delta[p + 1] >= 128 THEN 1 + BitsBelow(delta[p + 1], 7)
    ELSE 1 + delta[p + 1]

\* Every instruction from p on is a copy or an insert and has all its bytes.
RECURSIVE WholeInstructions(_, _)
WholeInstructions(delta, p) ==
    \/ p = Len(delta)
    \/ /\ p < Len(delta)
       /\ delta[p + 1] # 0
       /\ p + InstructionLength(delta, p) <= Len(delta)
       /\ WholeInstructions(delta, p + InstructionLength(delta, p))

\* Every copy from p on has its range inside the base.
RECURSIVE CopiesInside(_, _, _)
CopiesInside(base, delta, p) ==
    \/ p = Len(delta)
    \/ /\ delta[p + 1] >= 128
             => /\ OperandByte(delta, p, 3) < 128
                /\ CopyOffset(delta, p) + CopySize(delta, p) <= Len(base)
       /\ CopiesInside(base, delta, p + InstructionLength(delta, p))

\* The concatenation, in the order of the instructions, of the range of
\* each copy and of the literal bytes of each insert.
RECURSIVE Concatenation(_, _, _)
Concatenation(base, delta, p) ==
    IF p = Len(delta) THEN <<>>
    ELSE (IF delta[p + 1] >= 128
            THEN SubSeq(base, CopyOffset(delta, p) + 1,
                        CopyOffset(delta, p) + CopySize(delta, p))
            ELSE SubSeq(delta, p + 2, p + 1 + delta[p + 1]))
         \o Concatenation(base, delta, p + InstructionLength(delta, p))

\* "Hello Git World".
HelloTarget ==
    <<72, 101, 108, 108, 111, 32, 71, 105, 116, 32, 87, 111, 114, 108, 100>>

BeforeWrite ==
    \/ cl.pc = "idle" /\ cl'.pc # "idle"
    \/ cl.pc = "request"
    \/ cl.pc = "unpack" /\ cl'.pc = "exit"

\* C29.  Parse-before-write atomicity: a clone that leaves discovery, the
\* negotiation or the parsing of the pack with a failure has written no
\* object file; none of the steps up to there changes the object store, the
\* files under the repository directory or the working directory, and a
\* clone ends from one of these steps only with a failure.
C29_ParseBeforeWrite ==
    [][BeforeWrite
          => /\ objects' = objects
             /\ refFiles' = refFiles
             /\ worktree' = worktree
             /\ ~cl'.headOpen
             /\ cl'.pc = "exit" => cl'.status # "ok"]_vars

\* A clone has failed in the resolver, on a delta that cannot be applied,
\* after the parser had produced the base of the delta; an object written
\* before the clone is in the store.
C29_Witness ==
    /\ cl.pc = "exit"
    /\ cl.scen.pack = "baddelta"
    /\ cl.status = "throw"
    /\ DOMAIN parsePackfile(shaTab, cl.packData).objects # {}
    /\ Cardinality(DOMAIN objects) = 1

\* C30.  Branch/digest consistency after clone: when HEAD is written as
\* `ref: <R>`, the ref file of R holds the digest the remote advertised for
\* R, whatever the advertisement.
C30_BranchDigest ==
    (aux.phase = "written" /\ aux.headRef # <<>>)
        => /\ refFiles[STR_HEAD] = STR_ref_sp \o aux.headRef \o <<LF>>
           /\ \E k \in 1..Len(aux.entries) :
                 /\ EntryRef(aux.entries[k]) = aux.headRef
                 /\ refFiles[aux.headRef] = EntryDigest(aux.entries[k]) \o <<LF>>

====
